---- MODULE Spec2Model ----
(***************************************************************************)
(* A model of the stock dashboard repository: the AI stock-data flows with *)
(* their mock fallback, the output-repairing stockDataFlow, the opinion    *)
(* flows, the withAuth gate and the dashboard page's selection handler.    *)
(*                                                                         *)
(* Numbers.  A JavaScript number is modelled as an exact rational          *)
(* [n |-> numerator, d |-> denominator > 0] in lowest terms, so that two   *)
(* numbers are equal exactly when their records are equal.  The value      *)
(* undefined of an optional number is the record Undef.                    *)
(***************************************************************************)
EXTENDS Integers, Sequences, FiniteSets, TLC

(* ------------------------------ bounds -------------------------------- *)

\* Longest ticker list handed to getStockData.
MaxTickers == 2

\* Longest chart in a model output handed to the single-ticker flow.
MaxChart == 3

\* Longest array of entries, and longest chart in one, in a model output
\* handed to the flow of part_006.
MaxOut == 2

MaxArrayChart == 2

\* Renders of one mounted AuthComponent the model follows.
MaxRenders == 4

\* Requests for stock data the model follows in one session of the page.
MaxRequests == 2

\* Records fabricated in one run of the generators.
MaxFabricated == 2

\* Prices handed to generateMockChartData: 500 plus up to this many eighths.
MaxPriceEighths == 40

\* Holdings added on the portfolio page in one session.
MaxAdds == 2

\* How many selections (the first render's included) a session makes.
MaxSelections == 3

\* How many stocks that are not in initialWatchlist a watchlist starts with.
MaxNewStocks == 6

\* How many updates of the watchlist follow.
MaxUpdates == 2

\* How many row clicks and changes of the search parameter a session of the
\* mock-data dashboard has.
MaxEvents == 3

(* ------------------------------- state -------------------------------- *)

VARIABLES
  flowVariant,   \* which getStockDataFlow runs: "stock_flow" or "part_008"
  tickers,       \* the call's input.tickers
  flowPc,        \* "idle", "running" (Promise.all pending), "returned"
  taskPc,        \* per map callback: "awaitInfo", "awaitChart", "done"
  stockInfo,     \* per callback: what its stockInfoPrompt call settled with
  chartDataObj,  \* per callback: what its chartDataPrompt call settled with
  taskResult,    \* per callback: the value its promise resolved with
  settleOrder,   \* the callbacks in the order their promises settled
  promptCalls,   \* per callback: the prompts it invoked, in order
  failed,        \* the callbacks whose try block threw
  flowReturn,    \* what getStockData's promise settled with
  rngPos         \* the position of the Math.random() generator

flowVars == << flowVariant, tickers, flowPc, taskPc, stockInfo, chartDataObj,
               taskResult, settleOrder, promptCalls, failed, flowReturn, rngPos >>

VARIABLES
  repairVariant,  \* "stock_opinion_flow" (its second flow), "part_005",
                  \* "part_006" or "part_007"
  repairInput,    \* the tickers requested
  repairPc,       \* "idle", "awaitPrompt", "returned"
  promptOutput,   \* what the prompt settled with
  repairReturn    \* what the flow settled with

repairVars == << repairVariant, repairInput, repairPc, promptOutput, repairReturn >>

VARIABLES
  opinionVariant,  \* "stock_opinion_flow", "stock_flow" or "part_008"
  opinionInput,    \* the call's {ticker, name}
  opinionPc,       \* "idle", "awaitPrompt", "returned"
  opinionOutcome,  \* what the prompt settled with
  opinionReturn    \* what getStockOpinion settled with

opinionVars == << opinionVariant, opinionInput, opinionPc, opinionOutcome, opinionReturn >>

VARIABLES
  authToken,        \* localStorage's authToken: NoToken (absent) or a string
  mounted,          \* whether an AuthComponent is mounted
  isAuthenticated,  \* its state
  isLoading,        \* its state
  effectPending,    \* mounted, its mount effect not yet run
  tokenAtCheck,     \* what getItem returned when the effect ran (Unchecked before)
  replaceCalls,     \* the router.replace calls the component made
  rendered          \* what each render of the component returned

authVars == << authToken, mounted, isAuthenticated, isLoading, effectPending,
               tokenAtCheck, replaceCalls, rendered >>

VARIABLES
  searchParam,          \* the URL's ticker search parameter ("" when absent)
  watchlist,            \* state
  stockDetails,         \* state: per ticker, its details or Absent
  selectedTicker,       \* state: a ticker or NullTicker
  isGraphLoading,       \* state
  initialLoadComplete,  \* state
  inflight,             \* the handleStockSelection calls suspended at an await
  issued,               \* per ticker, the getStockData requests made for it
  failedLoads,          \* the tickers a load of which has failed
  lastEvent,            \* what the last step handled
  dashMounted           \* whether the first effect has run

dashVars == << searchParam, watchlist, stockDetails, selectedTicker, isGraphLoading,
               initialLoadComplete, inflight, issued, failedLoads, lastEvent,
               dashMounted >>

VARIABLES
  fabricated,  \* the Stock records fabricated so far, each with its generator
  mockRng      \* the position of the Math.random() generator

mockVars == << fabricated, mockRng >>

VARIABLES
  chartPrice,  \* the price generateMockChartData was last called with
  chartPos,    \* the position of the Math.random() generator at that call
  chartPc,     \* "idle" or "returned"
  chartOut     \* the array the call returned

chartGenVars == << chartPrice, chartPos, chartPc, chartOut >>

VARIABLES
  holdings,        \* state of PortfolioPage
  isDialogOpen,    \* state
  newStock,        \* state: the form's fields, as the strings typed
  toasts,          \* the title of the last toast shown ("" when none)
  portfolioEvent   \* what the last step handled

portfolioVars == << holdings, isDialogOpen, newStock, toasts, portfolioEvent >>

VARIABLES
  page3Variant,       \* which Dashboard runs: "page_third" or "part_002"
  page3Search,        \* the URL's ticker search parameter ("" when absent)
  watchlist3,         \* state
  stockChartData3,    \* state: per ticker, its chart data or NoChart
  selectedStock,      \* state: a Stock, or NoStock for null
  isLoading3,         \* state
  opinion3,           \* state (page_third): NoOpinion for null
  isOpinionLoading3,  \* state (page_third)
  calls3,             \* the pending calls of handleStockSelection / fetchStockData
  fetchPc,            \* fetchWatchlistData: "none", "running" or "done"
  fetchTasks,         \* its Promise.all: per initial stock, the callback's state
  fetchFirst,         \* the index of the callback that settled first (0: none yet)
  selections,         \* the selections made so far, in order, each with its outcome
  page3Mounted        \* whether the first render's effects ran

page3Vars == << page3Variant, page3Search, watchlist3, stockChartData3, selectedStock,
                isLoading3, opinion3, isOpinionLoading3, calls3, fetchPc, fetchTasks,
                fetchFirst, selections, page3Mounted >>

VARIABLES
  updVariant,  \* whose setWatchlist updater runs: "page_first" or "part_002"
  updList,     \* the watchlist
  updCount,    \* how many updates ran
  updLast      \* the last update: the requested ticker, the stock, the list before

updVars == << updVariant, updList, updCount, updLast >>

VARIABLES
  mdSearch,        \* the URL's ticker search parameter ("" when absent)
  mdWatchlist,     \* state: watchlist
  mdDetails,       \* state: stockDetails, per ticker its entry or MdAbsent
  mdSelected,      \* state: selectedTicker (NullTicker for null)
  mdGraphLoading,  \* state: isGraphLoading
  mdLoadComplete,  \* state: initialLoadComplete
  mdInitialLoad,   \* loadInitialData's getStockData: "none", "pending", "done"
  mdDataCalls,     \* the tickers of the pending getStockData calls of the handler
  mdOpinionCalls,  \* the tickers of the pending getStockOpinion calls
  mdClicked,       \* the row clicked last, since the last change of the
                   \* search parameter, and whether its ticker was loaded
  mdEvents,        \* how many clicks and parameter changes happened
  mdMounted        \* whether the first render's effects ran

mdVars == << mdSearch, mdWatchlist, mdDetails, mdSelected, mdGraphLoading,
             mdLoadComplete, mdInitialLoad, mdDataCalls, mdOpinionCalls, mdClicked,
             mdEvents, mdMounted >>

vars == << flowVars, repairVars, opinionVars, authVars, dashVars, mockVars,
           chartGenVars, portfolioVars, page3Vars, updVars, mdVars >>

\* What a step of one part of the program leaves alone: the other parts.
notFlowVars == << repairVars, opinionVars, authVars, dashVars, mockVars, chartGenVars,
                  portfolioVars, page3Vars, updVars, mdVars >>

notRepairVars == << flowVars, opinionVars, authVars, dashVars, mockVars, chartGenVars,
                    portfolioVars, page3Vars, updVars, mdVars >>

notOpinionVars == << flowVars, repairVars, authVars, dashVars, mockVars, chartGenVars,
                     portfolioVars, page3Vars, updVars, mdVars >>

notAuthVars == << flowVars, repairVars, opinionVars, dashVars, mockVars, chartGenVars,
                  portfolioVars, page3Vars, updVars, mdVars >>

notDashVars == << flowVars, repairVars, opinionVars, authVars, mockVars, chartGenVars,
                  portfolioVars, page3Vars, updVars, mdVars >>

notMockVars == << flowVars, repairVars, opinionVars, authVars, dashVars, chartGenVars,
                  portfolioVars, page3Vars, updVars, mdVars >>

notChartGenVars == << flowVars, repairVars, opinionVars, authVars, dashVars, mockVars,
                      portfolioVars, page3Vars, updVars, mdVars >>

notPortfolioVars == << flowVars, repairVars, opinionVars, authVars, dashVars, mockVars,
                       chartGenVars, page3Vars, updVars, mdVars >>

notPage3Vars == << flowVars, repairVars, opinionVars, authVars, dashVars, mockVars,
                   chartGenVars, portfolioVars, updVars, mdVars >>

notUpdVars == << flowVars, repairVars, opinionVars, authVars, dashVars, mockVars,
                 chartGenVars, portfolioVars, page3Vars, mdVars >>

notMdVars == << flowVars, repairVars, opinionVars, authVars, dashVars, mockVars,
                chartGenVars, portfolioVars, page3Vars, updVars >>

(* ----------------------------- numbers -------------------------------- *)

Abs(x) == IF x < 0 THEN -x ELSE x

RECURSIVE GCD(_, _)
GCD(a, b) == IF b = 0 THEN a ELSE GCD(b, a % b)

\* The rational n/d (d # 0) in lowest terms with a positive denominator.
Q(n, d) ==
  LET g == GCD(Abs(n), Abs(d))
      s == IF d < 0 THEN -1 ELSE 1
  IN  [n |-> s * (n \div g), d |-> s * (d \div g)]

Num(k) == [n |-> k, d |-> 1]

Undef == [n |-> 0, d |-> 0]

QAdd(a, b) == Q(a.n * b.d + b.n * a.d, a.d * b.d)

QSub(a, b) == Q(a.n * b.d - b.n * a.d, a.d * b.d)

\* Cross-reduced first, so the products stay small.
QMul(a, b) ==
  LET g1 == GCD(Abs(a.n), b.d)
      g2 == GCD(Abs(b.n), a.d)
  IN  Q((a.n \div g1) * (b.n \div g2), (a.d \div g2) * (b.d \div g1))

QDiv(a, b) == QMul(a, Q(b.d, b.n))

\* JavaScript truthiness of an optional number: undefined and 0 are falsy.
Truthy(x) == x # Undef /\ x.n # 0

\* parseFloat(x.toFixed(2)) for x >= 0: x rounded to the nearest hundredth,
\* halves up.
toFixed2(x) ==
  LET whole == x.n \div x.d
      rem   == x.n % x.d
      cents == (rem * 100) \div x.d
      rem2  == (rem * 100) % x.d
      up    == IF 2 * rem2 >= x.d THEN 1 ELSE 0
  IN  Q(whole * 100 + cents + up, 100)

(* ------------------------------ strings ------------------------------- *)

\* The tickers requests are made for.
Tickers == {"TCS", "INFY"}

\* ticker.charAt(0) + ticker.slice(1).toLowerCase()
Capitalized(ticker) ==
  CASE ticker = "TCS" -> "Tcs"
    [] ticker = "INFY" -> "Infy"
    [] ticker = "RELIANCE" -> "Reliance"
    [] ticker = "HDFCBANK" -> "Hdfcbank"
    [] ticker = "ADANIENT" -> "Adanient"
    [] ticker = "WIPRO" -> "Wipro"
    [] ticker = "TATAMOTORS" -> "Tatamotors"
    [] ticker = "ITC" -> "Itc"
    [] ticker = "ZOMATO" -> "Zomato"
    [] OTHER -> ticker

(* ---------------------------- Math.random ----------------------------- *)

\* Math.random() is a generator that steps through a sequence of values of
\* [0, 1); the model's generator cycles through these.
RandomCycle == << Q(1, 32), Q(9, 10), Num(0) >>

\* The value of the call made when the generator is at position pos.
Rand(pos) == RandomCycle[(pos % Len(RandomCycle)) + 1]

(* --------------------- stock-flow.ts: mock data ----------------------- *)

\* The precision the model keeps for the running value of a chart chain
\* (tempPrice, currentPrice): hundredths, so that the chained products stay
\* in TLC's integer range.  The first step of a chain starts from the exact
\* price.
Fl(x) == toFixed2(x)

generateMockStockInfo_changeOverPrevious(ticker, pos) ==
  LET price         == QAdd(QMul(Rand(pos), Num(8000 - 500)), Num(500))
      changePercent == QSub(QMul(Rand(pos + 1), Num(10)), Num(5))
      change        == QMul(price, QDiv(changePercent, Num(100)))
  IN  [ ticker        |-> ticker,
        name          |-> << Capitalized(ticker), " Fictional Inc." >>,
        price         |-> QAdd(price, change),
        change        |-> change,
        changePercent |-> changePercent ]

\* generateMockStockInfo(ticker), its two Math.random() calls made from
\* generator position pos.
generateMockStockInfo(ticker, pos) ==
  LET price         == QAdd(QMul(Rand(pos), Num(8000 - 500)), Num(500))
      changePercent == QSub(QMul(Rand(pos + 1), Num(10)), Num(5))
      change        == QMul(price, QDiv(changePercent, Num(100)))
  IN  [ ticker        |-> ticker,
        name          |-> << Capitalized(ticker), " Fictional Inc." >>,
        price         |-> price,
        change        |-> change,
        changePercent |-> changePercent ]

months == << "Jan", "Feb", "Mar", "Apr", "May", "Jun", "Jul", "Aug", "Sep", "Oct" >>

\* The history loop from iteration i on: tempPrice is divided by
\* (1 + (Math.random() * 0.1 - 0.05)) and its rounding is put at the front of
\* historyPrices (unshift); the draw of iteration i is at position pos + i.
RECURSIVE historyLoop(_, _, _, _)
historyLoop(tempPrice, historyPrices, pos, i) ==
  IF i >= 5 THEN historyPrices
  ELSE LET t == Fl(QDiv(tempPrice,
                        QAdd(Num(1), QSub(QMul(Rand(pos + i), Q(1, 10)), Q(1, 20)))))
       IN  historyLoop(t, << toFixed2(t) >> \o historyPrices, pos, i + 1)

\* The prediction loop from iteration i on (i = 6..9): currentPrice is
\* multiplied by (1 + (Math.random() * 0.1 - 0.04)) and pushed as the
\* prediction of months[i]; its draws follow the five of the history loop.
RECURSIVE predictionLoop(_, _, _, _)
predictionLoop(currentPrice, data, pos, i) ==
  IF i >= 10 THEN data
  ELSE LET c == Fl(QMul(currentPrice,
                        QAdd(Num(1), QSub(QMul(Rand(pos + i - 1), Q(1, 10)), Q(1, 25)))))
       IN  predictionLoop(c,
                          Append(data, [ date |-> months[i + 1], price |-> Undef,
                                         prediction |-> toFixed2(c) ]),
                          pos, i + 1)

\* The generator with the given price itself as the sixth point's price.
generateMockChartData_exactSixth(price, pos) ==
  LET historyPrices == historyLoop(price, << >>, pos, 0)
      history == [ i \in 1..5 |-> [ date |-> months[i], price |-> historyPrices[i],
                                    prediction |-> Undef ] ]
      sixth   == [ date |-> months[6], price |-> price, prediction |-> Undef ]
  IN  predictionLoop(price, Append(history, sixth), pos, 6)

\* generateMockChartData(price), its nine Math.random() calls made from
\* generator position pos.
generateMockChartData(price, pos) ==
  LET historyPrices == historyLoop(price, << >>, pos, 0)
      history == [ i \in 1..5 |-> [ date |-> months[i], price |-> historyPrices[i],
                                    prediction |-> Undef ] ]
      sixth   == [ date |-> months[6], price |-> toFixed2(price), prediction |-> Undef ]
  IN  predictionLoop(price, Append(history, sixth), pos, 6)

\* Math.random() calls made by generateMockStockInfo and generateMockChartData.
MockInfoDraws == 2
MockChartDraws == 9

(* ----------------------- part_008: the fallback ----------------------- *)

\* The catch block's record of part_008 (lines 106-117), its two
\* Math.random() calls made from generator position pos.
part008Fallback(ticker, pos) ==
  LET price  == QAdd(QMul(Rand(pos), Num(8000 - 50)), Num(50))
      change == QMul(price, QSub(QMul(Rand(pos + 1), Q(1, 10)), Q(1, 20)))
  IN  [ stock |-> [ ticker        |-> ticker,
                    name          |-> << Capitalized(ticker), " Inc. (Fictional)" >>,
                    price         |-> price,
                    change        |-> change,
                    changePercent |-> QMul(QDiv(change, QSub(price, change)), Num(100)) ],
        chartData |-> << >> ]

Part008Draws == 2

(* ------------------- getStockData: state of one call ------------------ *)

NoStock == [ ticker |-> "", name |-> << >>, price |-> Undef, change |-> Undef,
             changePercent |-> Undef ]

NoEntry == [ stock |-> NoStock, chartData |-> << >> ]

Pending == [ status |-> "pending", value |-> << >> ]

\* What a stockInfoPrompt call can settle with: it throws, yields no output,
\* or yields a record of StockOutputSchema (whose ticker and price are the
\* model's choice).
StockInfoOutcomes ==
  { [ kind |-> "throws", output |-> NoStock ], [ kind |-> "none", output |-> NoStock ] }
  \cup
  { [ kind |-> "output",
      output |-> [ ticker |-> t, name |-> << Capitalized(t), " Ltd." >>, price |-> p,
                   change |-> Num(15), changePercent |-> Num(1) ] ]
      : t \in Tickers, p \in { Num(1500) } }
  \cup
  { [ kind |-> "output",
      output |-> [ ticker |-> "TCS", name |-> << "Tcs", " Ltd." >>, price |-> Num(0),
                   change |-> Num(0), changePercent |-> Num(0) ] ] }

\* The prompt call of a callback that has not settled yet.
InfoUnset == [ kind |-> "unset", output |-> NoStock ]

ChartUnset == [ kind |-> "unset", chartData |-> << >> ]

\* What a chartDataPrompt({ticker, price}) call can settle with: it throws,
\* yields no output, an object without chartData (which only stock-flow.ts
\* provides for; ChartDataOutputSchema requires the array), or an array of
\* points, whose last historical price may or may not be the price it was
\* given.
ChartOutcomes(variant, price) ==
  { [ kind |-> k, chartData |-> << >> ] :
      k \in { "throws", "none" } \cup (IF variant = "stock_flow" THEN { "nochart" } ELSE {}) }
  \cup
  { [ kind |-> "output", chartData |-> c ] :
      c \in { << >>,
              << [ date |-> "Jan", price |-> Num(1400), prediction |-> Undef ],
                 [ date |-> "Feb", price |-> price, prediction |-> Undef ],
                 [ date |-> "Mar", price |-> Undef, prediction |-> Num(1600) ] >>,
              << [ date |-> "Jan", price |-> price, prediction |-> Undef ],
                 [ date |-> "Feb", price |-> Num(1450), prediction |-> Undef ],
                 [ date |-> "Mar", price |-> Undef, prediction |-> Num(1600) ] >> } }

N == Len(tickers)

\* The catch block of a map callback: the entry it returns, drawn from
\* generator position pos.
catchEntry(variant, ticker, pos) ==
  IF variant = "stock_flow"
  THEN LET mockStockInfo == generateMockStockInfo(ticker, pos)
       IN  [ stock     |-> mockStockInfo,
             chartData |-> generateMockChartData(mockStockInfo.price, pos + MockInfoDraws) ]
  ELSE part008Fallback(ticker, pos)

\* The entries of the catch block, by flow, ticker and generator position.
catchEntries ==
  [ variant \in { "stock_flow", "part_008" }, ticker \in Tickers,
    pos \in 0..(Len(RandomCycle) - 1) |-> catchEntry(variant, ticker, pos) ]

catchDraws(variant) ==
  IF variant = "stock_flow" THEN MockInfoDraws + MockChartDraws ELSE Part008Draws

\* The check on the stock info without the test of its price.
stockInfoUsable_anyOutput(variant, o) == o.kind = "output"

\* if (!stockInfo || !stockInfo.price) throw     (stock-flow.ts)
\* if (!stockInfo) throw                         (part_008)
stockInfoUsable(variant, o) ==
  /\ o.kind = "output"
  /\ variant = "stock_flow" => Truthy(o.output.price)

\* if (!chartDataObj || !chartDataObj.chartData || chartDataObj.chartData.length === 0) throw
\* if (!chartDataObj) throw                      (part_008)
chartUsable(variant, o) ==
  IF variant = "stock_flow"
  THEN o.kind = "output" /\ Len(o.chartData) > 0
  ELSE o.kind = "output"

FlowInit(variant) ==
  /\ flowVariant = variant
  /\ tickers \in UNION { [ 1..n -> Tickers ] : n \in 0..MaxTickers }
  /\ flowPc = "idle"
  /\ taskPc = << >>
  /\ stockInfo = << >>
  /\ chartDataObj = << >>
  /\ taskResult = << >>
  /\ settleOrder = << >>
  /\ promptCalls = << >>
  /\ failed = {}
  /\ flowReturn = Pending
  /\ rngPos \in 0..(Len(RandomCycle) - 1)

\* getStockData(input): tickers.map starts every callback, each of which runs
\* to its first await, the stockInfoPrompt call.
CallGetStockData ==
  /\ flowPc = "idle"
  /\ flowPc' = "running"
  /\ taskPc' = [ i \in 1..N |-> "awaitInfo" ]
  /\ stockInfo' = [ i \in 1..N |-> InfoUnset ]
  /\ chartDataObj' = [ i \in 1..N |-> ChartUnset ]
  /\ taskResult' = [ i \in 1..N |-> NoEntry ]
  /\ promptCalls' = [ i \in 1..N |-> << "stockInfoPrompt" >> ]
  /\ UNCHANGED << flowVariant, tickers, settleOrder, failed, flowReturn, rngPos >>
  /\ UNCHANGED notFlowVars

\* The callback of tickers[i] enters its catch block and resolves with the
\* fallback entry.
Catch(i) ==
  /\ failed' = failed \cup { i }
  /\ taskResult' = [ taskResult EXCEPT ![i] = catchEntries[flowVariant, tickers[i], rngPos] ]
  /\ rngPos' = (rngPos + catchDraws(flowVariant)) % Len(RandomCycle)
  /\ taskPc' = [ taskPc EXCEPT ![i] = "done" ]
  /\ settleOrder' = Append(settleOrder, i)

\* The stockInfoPrompt call of callback i settles with o, and the callback
\* runs to its next await or to its end.
StockInfoSettles(i, o) ==
  /\ flowPc = "running"
  /\ taskPc[i] = "awaitInfo"
  /\ stockInfo' = [ stockInfo EXCEPT ![i] = o ]
  /\ IF stockInfoUsable(flowVariant, o)
     THEN /\ promptCalls' = [ promptCalls EXCEPT ![i] = Append(@, "chartDataPrompt") ]
          /\ taskPc' = [ taskPc EXCEPT ![i] = "awaitChart" ]
          /\ UNCHANGED << failed, taskResult, rngPos, settleOrder >>
     ELSE /\ Catch(i)
          /\ UNCHANGED promptCalls
  /\ UNCHANGED << flowVariant, tickers, flowPc, chartDataObj, flowReturn >>
  /\ UNCHANGED notFlowVars

\* The chartDataPrompt call of callback i settles with o.
ChartDataSettles(i, o) ==
  /\ flowPc = "running"
  /\ taskPc[i] = "awaitChart"
  /\ chartDataObj' = [ chartDataObj EXCEPT ![i] = o ]
  /\ IF chartUsable(flowVariant, o)
     THEN /\ taskResult' = [ taskResult EXCEPT
                               ![i] = [ stock     |-> stockInfo[i].output,
                                        chartData |-> o.chartData ] ]
          /\ taskPc' = [ taskPc EXCEPT ![i] = "done" ]
          /\ settleOrder' = Append(settleOrder, i)
          /\ UNCHANGED << failed, rngPos >>
     ELSE Catch(i)
  /\ UNCHANGED << flowVariant, tickers, flowPc, stockInfo, promptCalls, flowReturn >>
  /\ UNCHANGED notFlowVars

PromiseAll_inSettleOrder(results, order) ==
  [ k \in 1..Len(results) |-> results[order[k]] ]

\* Promise.all(stockDataPromises): the values in the order of the promises,
\* whatever the order they settled in.
PromiseAll(results, order) ==
  [ k \in 1..Len(results) |-> results[k] ]

\* results.filter(r => r.chartData.length > 0)
RECURSIVE filterNonEmptyChart(_)
filterNonEmptyChart(results) ==
  IF results = << >> THEN << >>
  ELSE IF Len(Head(results).chartData) > 0
       THEN << Head(results) >> \o filterNonEmptyChart(Tail(results))
       ELSE filterNonEmptyChart(Tail(results))

\* What the flow returns once every promise has settled.
getStockDataFlow(variant, results, order) ==
  IF variant = "stock_flow"
  THEN PromiseAll(results, order)
  ELSE filterNonEmptyChart(PromiseAll(results, order))

\* Every callback has settled: Promise.all resolves and getStockData returns.
GetStockDataReturns ==
  /\ flowPc = "running"
  /\ \A i \in 1..N : taskPc[i] = "done"
  /\ flowReturn' = [ status |-> "resolved",
                     value  |-> getStockDataFlow(flowVariant, taskResult, settleOrder) ]
  /\ flowPc' = "returned"
  /\ UNCHANGED << flowVariant, tickers, taskPc, stockInfo, chartDataObj, taskResult,
                  settleOrder, promptCalls, failed, rngPos >>
  /\ UNCHANGED notFlowVars

FlowNext ==
  \/ CallGetStockData
  \/ \E i \in DOMAIN taskPc : \E o \in StockInfoOutcomes : StockInfoSettles(i, o)
  \/ \E i \in DOMAIN taskPc : \E o \in ChartOutcomes(flowVariant, stockInfo[i].output.price) :
         ChartDataSettles(i, o)
  \/ GetStockDataReturns

(* ------------------------- getStockData: claims ----------------------- *)

\* The failures of the claims, read off what the prompts of callback i
\* settled with: a prompt threw, the stock info is missing or has a falsy
\* price, the chart data is missing or empty.
AiFailed(i) ==
  \/ stockInfo[i].kind \in { "throws", "none" }
  \/ stockInfo[i].kind = "output" /\ ~Truthy(stockInfo[i].output.price)
  \/ chartDataObj[i].kind \in { "throws", "none", "nochart" }
  \/ chartDataObj[i].kind = "output" /\ Len(chartDataObj[i].chartData) = 0

\* An entry fabricated by stock-flow.ts for ticker t: generateMockStockInfo's
\* name and generateMockChartData's ten months.
IsMockFor(e, t) ==
  /\ e.stock.ticker = t
  /\ e.stock.name = << Capitalized(t), " Fictional Inc." >>
  /\ Len(e.chartData) = 10

\* C1: getStockData of stock-flow.ts resolves with exactly one entry per input
\* ticker, in input order, whatever the order the per-ticker calls completed
\* in: the entry of a ticker whose AI generation failed is mock data for that
\* ticker, and the entry of every other ticker is exactly what the AI returned
\* for it.
C1_OneEntryPerTickerInOrder ==
  flowPc = "returned" =>
    /\ flowReturn.status = "resolved"
    /\ Len(flowReturn.value) = Len(tickers)
    /\ \A i \in 1..Len(tickers) :
         IF AiFailed(i)
         THEN IsMockFor(flowReturn.value[i], tickers[i])
         ELSE flowReturn.value[i] = [ stock     |-> stockInfo[i].output,
                                      chartData |-> chartDataObj[i].chartData ]

\* Two tickers, the second settled first, one of them failed and one not.
C1_Witness ==
  /\ flowPc = "returned"
  /\ Len(tickers) = 2
  /\ settleOrder = << 2, 1 >>
  /\ AiFailed(1)
  /\ ~AiFailed(2)
  /\ stockInfo[2].output.ticker # tickers[1]

\* The last point of a chart that carries a price (0 when none does).
RECURSIVE lastPricedIndex(_)
lastPricedIndex(chart) ==
  IF chart = << >> THEN 0
  ELSE IF chart[Len(chart)].price # Undef THEN Len(chart)
       ELSE lastPricedIndex(SubSeq(chart, 1, Len(chart) - 1))

\* C4: every entry getStockData of stock-flow.ts returns has a chart whose
\* last point carrying a price has the entry's stock.price as its price.
C4_LastPriceIsStockPrice ==
  flowPc = "returned" =>
    \A i \in 1..Len(flowReturn.value) :
      LET e == flowReturn.value[i]
          k == lastPricedIndex(e.chartData)
      IN  k > 0 /\ e.chartData[k].price = e.stock.price

\* Within one getStockData call of stock-flow.ts each callback invokes the
\* stock-info prompt once and the chart-data prompt at most once, the latter
\* only after the former returned a usable price, and once a callback has
\* failed it invokes no prompt again.
C5_CallsInv ==
  \A i \in DOMAIN promptCalls :
    /\ promptCalls[i] \in { << "stockInfoPrompt" >>,
                            << "stockInfoPrompt", "chartDataPrompt" >> }
    /\ Len(promptCalls[i]) = 2 =>
         stockInfo[i].kind = "output" /\ Truthy(stockInfo[i].output.price)

C5_NoCallAfterFailure ==
  \A i \in DOMAIN promptCalls :
    AiFailed(i) => (i \in DOMAIN promptCalls' /\ promptCalls'[i] = promptCalls[i])

\* C5: for each requested ticker the stock-info prompt is invoked at most
\* once and the chart-data prompt at most once and only after a usable price,
\* and no prompt is invoked for a ticker after its generation has failed.
C5_AtMostOnceNoRetry == [](C5_CallsInv) /\ [][C5_NoCallAfterFailure]_vars

\* A callback failed at its chart-data prompt, after both calls.
C5_Witness ==
  \E i \in DOMAIN promptCalls :
    /\ Len(promptCalls[i]) = 2
    /\ chartDataObj[i].kind = "throws"
    /\ taskPc[i] = "done"

\* C10: getStockData of part_008 returns one entry per requested ticker, the
\* entry of a ticker whose AI generation failed being mock data for it.
C10_EntryPerTicker ==
  flowPc = "returned" =>
    /\ Len(flowReturn.value) = Len(tickers)
    /\ \A i \in 1..Len(tickers) :
         i \in failed => /\ i <= Len(flowReturn.value)
                         /\ flowReturn.value[i].stock.ticker = tickers[i]

(* ------------- stockDataFlow: the flows that repair the output -------- *)

\* Chart points a model may produce: the price absent, zero or positive, the
\* prediction absent or present.
ModelPoints ==
  { [ date |-> "m", price |-> p, prediction |-> q ] :
      p \in { Undef, Num(0), Num(20) }, q \in { Undef, Num(7) } }

\* In the arrays of part_006 every point has a prediction, as its prompt asks.
ArrayPoints == { pt \in ModelPoints : pt.prediction # Undef }

ChartsOver(points, maxLen) == UNION { [ 1..n -> points ] : n \in 0..maxLen }

ModelStock(price) ==
  [ ticker |-> "TCS", name |-> << "Tcs", " Ltd." >>, price |-> price,
    change |-> Num(1), changePercent |-> Num(5) ]

\* The outputs of the single-ticker prompt (one StockDataOutputSchema object,
\* held as a one-entry sequence) and of the prompt of part_006 (an array).
ModelOutputs(variant) ==
  IF variant = "stock_opinion_flow"
  THEN { << [ stock |-> ModelStock(p), chartData |-> c ] >> :
           p \in { Num(10), Num(20) }, c \in ChartsOver(ModelPoints, MaxChart) }
  ELSE UNION { [ 1..n -> { [ stock |-> ModelStock(Num(10)), chartData |-> c ] :
                             c \in ChartsOver(ArrayPoints, MaxArrayChart) } ]
               : n \in 0..MaxOut }

PromptOutcomes(variant) ==
  { [ kind |-> "throws", output |-> << >> ], [ kind |-> "none", output |-> << >> ] }
  \cup { [ kind |-> "output", output |-> o ] : o \in ModelOutputs(variant) }

\* chartData.filter(d => d.price !== undefined)
RECURSIVE filterPriced(_)
filterPriced(chart) ==
  IF chart = << >> THEN << >>
  ELSE IF Head(chart).price # Undef
       THEN << Head(chart) >> \o filterPriced(Tail(chart))
       ELSE filterPriced(Tail(chart))

\* chartData.findIndex(d => d.price === undefined), 0-based, -1 when none.
RECURSIVE findIndexUnpriced(_, _)
findIndexUnpriced(chart, from) ==
  IF from >= Len(chart) THEN -1
  ELSE IF chart[from + 1].price = Undef THEN from
       ELSE findIndexUnpriced(chart, from + 1)

\* chartData.findLastIndex(d => d.price !== undefined && d.price !== null),
\* 0-based, -1 when none.
RECURSIVE findLastIndexPriced(_, _)
findLastIndexPriced(chart, from) ==
  IF from < 0 THEN -1
  ELSE IF chart[from + 1].price # Undef THEN from
       ELSE findLastIndexPriced(chart, from - 1)

\* Lines 144-157 of stock-opinion-flow.ts, applied to the prompt's output.
repairOutput(output) ==
  LET historicalData == filterPriced(output.chartData)
  IN  IF Len(historicalData) > 0
      THEN LET lastHistoricalPoint == historicalData[Len(historicalData)]
           IN  IF Truthy(lastHistoricalPoint.price)
               THEN LET firstPredictionIndex == findIndexUnpriced(output.chartData, 0)
                    IN  [ stock |-> [ output.stock EXCEPT !.price = lastHistoricalPoint.price ],
                          chartData |->
                            IF firstPredictionIndex > 0
                            THEN [ output.chartData EXCEPT
                                     ![firstPredictionIndex].prediction =
                                        lastHistoricalPoint.price ]
                            ELSE output.chartData ]
               ELSE output
      ELSE output

\* The map callback of part_006 (lines 86-103), applied to one entry.
supervise(data) ==
  LET lastHistoricalDataIndex == findLastIndexPriced(data.chartData, Len(data.chartData) - 1)
  IN  IF lastHistoricalDataIndex # -1
      THEN LET lastHistoricalPoint == data.chartData[lastHistoricalDataIndex + 1]
           IN  IF Truthy(lastHistoricalPoint.price)
               THEN [ stock |-> [ data.stock EXCEPT !.price = lastHistoricalPoint.price ],
                      chartData |-> [ data.chartData EXCEPT
                                        ![lastHistoricalDataIndex + 1].prediction =
                                           lastHistoricalPoint.price ] ]
               ELSE data
      ELSE data

\* A stockDataFlow without the catch of the array flows.
stockDataFlow_rethrows(variant, o) ==
  IF variant = "stock_opinion_flow"
  THEN IF o.kind = "output"
       THEN [ status |-> "resolved", value |-> << repairOutput(o.output[1]) >> ]
       ELSE [ status |-> "rejected", value |-> << >> ]
  ELSE IF o.kind = "output"
       THEN [ status |-> "resolved",
              value  |-> IF variant = "part_006"
                         THEN [ k \in 1..Len(o.output) |-> supervise(o.output[k]) ]
                         ELSE o.output ]
       ELSE IF o.kind = "none"
            THEN [ status |-> "resolved", value |-> << >> ]
            ELSE [ status |-> "rejected", value |-> << >> ]

\* stockDataFlow: what it settles with when its prompt settled with o.
stockDataFlow(variant, o) ==
  IF variant = "stock_opinion_flow"
  THEN IF o.kind = "output"
       THEN [ status |-> "resolved", value |-> << repairOutput(o.output[1]) >> ]
       ELSE [ status |-> "rejected", value |-> << >> ]
  ELSE IF o.kind = "output"
       THEN [ status |-> "resolved",
              value  |-> IF variant = "part_006"
                         THEN [ k \in 1..Len(o.output) |-> supervise(o.output[k]) ]
                         ELSE o.output ]
       ELSE [ status |-> "resolved", value |-> << >> ]

NoPromptOutput == [ kind |-> "unset", output |-> << >> ]

\* The tickers a call requests: one for the single-ticker flow, the first
\* tickers of a list for the flows that take an array.
RequestedList == << "TCS", "INFY", "RELIANCE", "WIPRO" >>

RepairInputs(variant) ==
  IF variant = "stock_opinion_flow"
  THEN { << t >> : t \in Tickers }
  ELSE { SubSeq(RequestedList, 1, n) :
           n \in 1..(IF MaxTickers < Len(RequestedList) THEN MaxTickers
                     ELSE Len(RequestedList)) }

RepairInitOf(variants) ==
  /\ repairVariant \in variants
  /\ repairInput \in RepairInputs(repairVariant)
  /\ repairPc = "idle"
  /\ promptOutput = NoPromptOutput
  /\ repairReturn = Pending

RepairInit == RepairInitOf({ "stock_opinion_flow", "part_006" })

\* The flows whose prompt returns an array: part_005, part_006 and part_007.
ArrayFlowInit == RepairInitOf({ "part_005", "part_006", "part_007" })

\* getStockData(input): the flow runs to its await of the prompt.
CallStockDataFlow ==
  /\ repairPc = "idle"
  /\ repairPc' = "awaitPrompt"
  /\ UNCHANGED << repairVariant, repairInput, promptOutput, repairReturn >>
  /\ UNCHANGED notRepairVars

\* The prompt settles with o and the flow runs to its end.
PromptSettles(o) ==
  /\ repairPc = "awaitPrompt"
  /\ promptOutput' = o
  /\ repairReturn' = stockDataFlow(repairVariant, o)
  /\ repairPc' = "returned"
  /\ UNCHANGED << repairVariant, repairInput >>
  /\ UNCHANGED notRepairVars

RepairNext ==
  \/ CallStockDataFlow
  \/ \E o \in PromptOutcomes(repairVariant) : PromptSettles(o)

(* --------------------------- getStockOpinion -------------------------- *)

\* A string is modelled as the sequence of its parts, so that "begins with"
\* is a comparison of the first part.
Disclaimer == "Disclaimer: This is an AI-generated analysis and not financial advice."

startsWith(str, prefix) == Len(str) > 0 /\ str[1] = prefix

CompanyNames == { << "Tata Consultancy" >>, << "Infosys" >>, << "Tcs", " Fictional Inc." >> }

\* What the opinion prompt can settle with: it throws, yields no output, or
\* yields a text that follows the instruction to open with the disclaimer, a
\* text that does not, or the empty text.
OpinionOutcomes(input) ==
  { [ kind |-> "throws", opinion |-> << >> ], [ kind |-> "none", opinion |-> << >> ] }
  \cup
  { [ kind |-> "output", opinion |-> t ] :
      t \in { << Disclaimer, " Always conduct your own research. " >> \o input.name
                 \o << " may grow." >>,
              input.name \o << " (", input.ticker, ") is a strong buy." >>,
              << >> } }

\* stockOpinionFlow / getStockOpinionFlow: what it settles with when its
\* prompt settled with o.  Each variant catches every error of its try block
\* and returns its own fixed text.
stockOpinionFlow(variant, o) ==
  IF o.kind = "output"
  THEN [ status |-> "resolved", value |-> o.opinion ]
  ELSE [ status |-> "resolved",
         value  |->
           CASE variant = "stock_opinion_flow" ->
                  << Disclaimer,
                     " The AI opinion is currently unavailable due to a technical issue. Please try again later." >>
             [] variant = "stock_flow" ->
                  << Disclaimer,
                     " AI opinion is currently unavailable for this stock, please conduct your own research." >>
             [] OTHER ->
                  << "AI financial opinion is currently unavailable for this stock." >> ]

OpinionInit ==
  /\ opinionVariant \in { "stock_opinion_flow", "stock_flow", "part_008" }
  /\ opinionInput \in [ ticker : Tickers, name : CompanyNames ]
  /\ opinionPc = "idle"
  /\ opinionOutcome = [ kind |-> "unset", opinion |-> << >> ]
  /\ opinionReturn = Pending

\* getStockOpinion(input): the flow runs to its await of the prompt.
CallGetStockOpinion ==
  /\ opinionPc = "idle"
  /\ opinionPc' = "awaitPrompt"
  /\ UNCHANGED << opinionVariant, opinionInput, opinionOutcome, opinionReturn >>
  /\ UNCHANGED notOpinionVars

\* The prompt settles with o and the flow runs to its end.
OpinionPromptSettles(o) ==
  /\ opinionPc = "awaitPrompt"
  /\ opinionOutcome' = o
  /\ opinionReturn' = stockOpinionFlow(opinionVariant, o)
  /\ opinionPc' = "returned"
  /\ UNCHANGED << opinionVariant, opinionInput >>
  /\ UNCHANGED notOpinionVars

OpinionNext ==
  \/ CallGetStockOpinion
  \/ \E o \in OpinionOutcomes(opinionInput) : OpinionPromptSettles(o)

(* ------------------------------ withAuth ------------------------------ *)

NoToken == "<null>"

Unchecked == "<unchecked>"

TokenValues == { NoToken, "", "token-1" }

\* JavaScript truthiness of localStorage.getItem's result: null and the empty
\* string are falsy.
TokenTruthy(token) == token # NoToken /\ token # ""

AuthComponent_ignoresAuthenticated(loading, authenticated) ==
  IF loading THEN "spinner" ELSE "WrappedComponent"

\* What AuthComponent's render returns.
AuthComponent(loading, authenticated) ==
  IF loading THEN "spinner"
  ELSE IF ~authenticated THEN "null"
  ELSE "WrappedComponent"

AuthInit ==
  /\ authToken \in TokenValues
  /\ mounted = FALSE
  /\ isAuthenticated = FALSE
  /\ isLoading = TRUE
  /\ effectPending = FALSE
  /\ tokenAtCheck = Unchecked
  /\ replaceCalls = << >>
  /\ rendered = << >>

\* The component mounts: useState's initial values, and the first render.
Mount ==
  /\ ~mounted
  /\ mounted' = TRUE
  /\ isAuthenticated' = FALSE
  /\ isLoading' = TRUE
  /\ effectPending' = TRUE
  /\ tokenAtCheck' = Unchecked
  /\ replaceCalls' = << >>
  /\ rendered' = << AuthComponent(TRUE, FALSE) >>
  /\ UNCHANGED authToken
  /\ UNCHANGED notAuthVars

\* The mount effect runs, and the component renders with the state it set.
AuthEffect ==
  /\ mounted
  /\ effectPending
  /\ effectPending' = FALSE
  /\ tokenAtCheck' = authToken
  /\ isAuthenticated' = (IF TokenTruthy(authToken) THEN TRUE ELSE isAuthenticated)
  /\ replaceCalls' = (IF TokenTruthy(authToken) THEN replaceCalls
                      ELSE Append(replaceCalls, "/login"))
  /\ isLoading' = FALSE
  /\ rendered' = Append(rendered, AuthComponent(isLoading', isAuthenticated'))
  /\ UNCHANGED << authToken, mounted >>
  /\ UNCHANGED notAuthVars

\* The component renders again (its parent rendered).
Rerender ==
  /\ mounted
  /\ Len(rendered) < MaxRenders
  /\ rendered' = Append(rendered, AuthComponent(isLoading, isAuthenticated))
  /\ UNCHANGED << authToken, mounted, isAuthenticated, isLoading, effectPending,
                  tokenAtCheck, replaceCalls >>
  /\ UNCHANGED notAuthVars

\* The component unmounts (the route changed).
Unmount ==
  /\ mounted
  /\ mounted' = FALSE
  /\ effectPending' = FALSE
  /\ UNCHANGED << authToken, isAuthenticated, isLoading, tokenAtCheck, replaceCalls,
                  rendered >>
  /\ UNCHANGED notAuthVars

\* Another page or tab stores or removes the token.
StorageChanges(token) ==
  /\ authToken # token
  /\ authToken' = token
  /\ UNCHANGED << mounted, isAuthenticated, isLoading, effectPending, tokenAtCheck,
                  replaceCalls, rendered >>
  /\ UNCHANGED notAuthVars

AuthNext ==
  \/ Mount
  \/ AuthEffect
  \/ Rerender
  \/ Unmount
  \/ \E token \in TokenValues : StorageChanges(token)

(* ------------------- the dashboard of src/app/page.tsx ---------------- *)

NullTicker == "<null>"

\* The tickers of a session: the first two of initialWatchlist and one that
\* is not in it.
DashTickers == { "RELIANCE", "TCS", "ZOMATO" }

\* What the URL's ticker parameter may be.
SearchValues == { "", "TCS", "zomato" }

toUpperCase(t) == IF t = "zomato" THEN "ZOMATO" ELSE t

PlaceholderStock(ticker, name) ==
  [ ticker |-> ticker, name |-> << name >>, price |-> Num(0), change |-> Num(0),
    changePercent |-> Num(0) ]

initialWatchlist ==
  << PlaceholderStock("RELIANCE", "Reliance Industries"),
     PlaceholderStock("TCS", "Tata Consultancy"),
     PlaceholderStock("HDFCBANK", "HDFC Bank"),
     PlaceholderStock("INFY", "Infosys"),
     PlaceholderStock("ADANIENT", "Adani Enterprises"),
     PlaceholderStock("WIPRO", "Wipro"),
     PlaceholderStock("TATAMOTORS", "Tata Motors"),
     PlaceholderStock("ITC", "ITC Limited") >>

\* An entry of stockDetails.  The fields an object does not have are NoStock,
\* the empty chart, NoOpinion and "undefined".
NoOpinion == [ set |-> FALSE, text |-> << >> ]

Absent == [ present |-> FALSE, stock |-> NoStock, chartData |-> << >>,
            opinion |-> NoOpinion, opinionLoading |-> "undefined" ]

\* JavaScript truthiness of entry?.opinion: absent and "" are falsy.
OpinionTruthy(entry) == entry.present /\ entry.opinion.set /\ entry.opinion.text # << >>

\* What a getStockData({tickers: [ticker]}) request can settle with: it
\* throws, resolves with an empty array, or with an entry whose stock carries
\* the requested ticker or another one.
DashDataOutcomes(ticker) ==
  { [ kind |-> "throws", data |-> NoEntry ], [ kind |-> "empty", data |-> NoEntry ] }
  \cup
  { [ kind |-> "data",
      data |-> [ stock |-> [ ticker |-> t, name |-> << Capitalized(t), " Ltd." >>,
                             price |-> Num(100), change |-> Num(1),
                             changePercent |-> Num(1) ],
                 chartData |-> << [ date |-> "Jan", price |-> Num(100),
                                    prediction |-> Undef ] >> ] ]
      : t \in { ticker, "TCS" } }

\* What a getStockOpinion request can settle with: the request throws, or
\* stockOpinionFlow of stock-opinion-flow.ts returned.
DashOpinionOutcomes(stock) ==
  { [ kind |-> "throws", opinion |-> << >> ] }
  \cup
  { [ kind |-> "opinion", opinion |-> stockOpinionFlow("stock_opinion_flow", o).value ]
      : o \in OpinionOutcomes(stock) }

\* The component's state and pending calls as one record.
D ==
  [ searchParam |-> searchParam, watchlist |-> watchlist, stockDetails |-> stockDetails,
    selectedTicker |-> selectedTicker, isGraphLoading |-> isGraphLoading,
    initialLoadComplete |-> initialLoadComplete, inflight |-> inflight,
    issued |-> issued ]

\* A handler without the early return of lines 67-74.
handleStockSelection_alwaysLoads(d, ticker) ==
  LET upperTicker == toUpperCase(ticker)
  IN  [ d EXCEPT
          !.isGraphLoading = TRUE,
          !.selectedTicker = upperTicker,
          !.stockDetails[upperTicker] =
             [ @ EXCEPT !.present = TRUE, !.opinionLoading = "true" ],
          !.inflight = Append(@, [ ticker |-> upperTicker, pc |-> "awaitData",
                                   data |-> NoEntry ]),
          !.issued[upperTicker] = @ + 1 ]

\* handleStockSelection(ticker) up to its first await (lines 64-89).
handleStockSelection(d, ticker) ==
  LET upperTicker == toUpperCase(ticker)
  IN  IF OpinionTruthy(d.stockDetails[upperTicker])
      THEN [ d EXCEPT !.selectedTicker = upperTicker ]
      ELSE [ d EXCEPT
               !.isGraphLoading = TRUE,
               !.selectedTicker = upperTicker,
               !.stockDetails[upperTicker] =
                  [ @ EXCEPT !.present = TRUE, !.opinionLoading = "true" ],
               !.inflight = Append(@, [ ticker |-> upperTicker, pc |-> "awaitData",
                                        data |-> NoEntry ]),
               !.issued[upperTicker] = @ + 1 ]

\* The body of the effect (lines 132-146).
useEffect(d) ==
  LET searchTicker == toUpperCase(d.searchParam)
  IN  IF ~d.initialLoadComplete
      THEN LET tickerToLoad == IF searchTicker # "" THEN searchTicker
                               ELSE initialWatchlist[1].ticker
           IN  [ handleStockSelection(d, tickerToLoad) EXCEPT !.initialLoadComplete = TRUE ]
      ELSE IF searchTicker # "" /\ searchTicker # d.selectedTicker
           THEN handleStockSelection(d, searchTicker)
           ELSE d

\* Whether a dependency of the effect differs between two renders:
\* searchParams, initialLoadComplete, selectedTicker and handleStockSelection,
\* which useCallback renews when stockDetails is set.  (Setting stockDetails
\* to an equal value renews it too; the effect then finds the state it left,
\* in which it does nothing.)
depsChanged(before, after) ==
  \/ before.searchParam # after.searchParam
  \/ before.initialLoadComplete # after.initialLoadComplete
  \/ before.selectedTicker # after.selectedTicker
  \/ before.stockDetails # after.stockDetails

\* The render that follows a handler's state updates, and the effect runs it
\* leads to, until a render changes no dependency.
RECURSIVE renderAndRunEffects(_, _)
renderAndRunEffects(before, after) ==
  IF depsChanged(before, after)
  THEN renderAndRunEffects(after, useEffect(after))
  ELSE after

\* The updater without its slice(0, 10).
updateWatchlist_uncut(prev, upperTicker, stock) ==
  IF \E k \in 1..Len(prev) : prev[k].ticker = upperTicker
  THEN [ k \in 1..Len(prev) |-> IF prev[k].ticker = upperTicker THEN stock ELSE prev[k] ]
  ELSE << stock >> \o prev

\* The setWatchlist updater of lines 100-106.
updateWatchlist(prev, upperTicker, stock) ==
  IF \E k \in 1..Len(prev) : prev[k].ticker = upperTicker
  THEN [ k \in 1..Len(prev) |-> IF prev[k].ticker = upperTicker THEN stock ELSE prev[k] ]
  ELSE SubSeq(<< stock >> \o prev, 1, IF Len(prev) + 1 < 10 THEN Len(prev) + 1 ELSE 10)

RemoveAt(seq, i) == SubSeq(seq, 1, i - 1) \o SubSeq(seq, i + 1, Len(seq))

\* A catch block that clears the selection whatever is selected.
catchBlock_clearsSelection(d, i) ==
  LET upperTicker == d.inflight[i].ticker
  IN  [ d EXCEPT
          !.selectedTicker = NullTicker,
          !.isGraphLoading = FALSE,
          !.stockDetails[upperTicker] = Absent,
          !.inflight = RemoveAt(@, i) ]

\* The catch block (lines 112-127) of the call inflight[i].
catchBlock(d, i) ==
  LET upperTicker == d.inflight[i].ticker
  IN  [ d EXCEPT
          !.selectedTicker = IF @ = upperTicker THEN NullTicker ELSE @,
          !.isGraphLoading = FALSE,
          !.stockDetails[upperTicker] = Absent,
          !.inflight = RemoveAt(@, i) ]

\* Lines 90-109: getStockData of the call inflight[i] settled with o.
afterStockData(d, i, o) ==
  LET upperTicker == d.inflight[i].ticker
  IN  IF o.kind # "data"
      THEN catchBlock(d, i)
      ELSE [ d EXCEPT
               !.stockDetails[upperTicker] =
                  [ present |-> TRUE, stock |-> o.data.stock,
                    chartData |-> o.data.chartData, opinion |-> NoOpinion,
                    opinionLoading |-> "true" ],
               !.isGraphLoading = FALSE,
               !.watchlist = updateWatchlist(@, upperTicker, o.data.stock),
               !.inflight[i] = [ ticker |-> upperTicker, pc |-> "awaitOpinion",
                                 data |-> o.data ] ]

\* Lines 109-110: getStockOpinion of the call inflight[i] settled with o.
afterStockOpinion(d, i, o) ==
  LET upperTicker == d.inflight[i].ticker
      data == d.inflight[i].data
  IN  IF o.kind = "throws"
      THEN catchBlock(d, i)
      ELSE [ d EXCEPT
               !.stockDetails[upperTicker] =
                  [ present |-> TRUE, stock |-> data.stock, chartData |-> data.chartData,
                    opinion |-> [ set |-> TRUE, text |-> o.opinion ],
                    opinionLoading |-> "false" ],
               !.inflight = RemoveAt(@, i) ]

TotalIssued(d) ==
  d.issued["RELIANCE"] + d.issued["TCS"] + d.issued["ZOMATO"]

\* The state d becomes the component's state, if the requests it holds are
\* within the model's bound.
Commit(d) ==
  /\ TotalIssued(d) <= MaxRequests
  /\ searchParam' = d.searchParam
  /\ watchlist' = d.watchlist
  /\ stockDetails' = d.stockDetails
  /\ selectedTicker' = d.selectedTicker
  /\ isGraphLoading' = d.isGraphLoading
  /\ initialLoadComplete' = d.initialLoadComplete
  /\ inflight' = d.inflight
  /\ issued' = d.issued

DashInit ==
  /\ searchParam \in SearchValues
  /\ watchlist = initialWatchlist
  /\ stockDetails = [ t \in DashTickers |-> Absent ]
  /\ selectedTicker = NullTicker
  /\ isGraphLoading = TRUE
  /\ initialLoadComplete = FALSE
  /\ inflight = << >>
  /\ issued = [ t \in DashTickers |-> 0 ]
  /\ failedLoads = {}
  /\ lastEvent = "none"
  /\ dashMounted = FALSE

\* The first render's effect.
DashMount ==
  /\ ~dashMounted
  /\ dashMounted' = TRUE
  /\ Commit(renderAndRunEffects(D, useEffect(D)))
  /\ lastEvent' = "mount"
  /\ UNCHANGED failedLoads
  /\ UNCHANGED notDashVars

\* The user clicks the k-th row of the watchlist.
RowClick(k) ==
  /\ dashMounted
  /\ watchlist[k].ticker \in DashTickers
  /\ Commit(renderAndRunEffects(D, handleStockSelection(D, watchlist[k].ticker)))
  /\ lastEvent' = "click"
  /\ UNCHANGED << failedLoads, dashMounted >>
  /\ UNCHANGED notDashVars

\* The ticker search parameter changes (a search in the layout's form).
SearchParamChanges(v) ==
  /\ dashMounted
  /\ v # searchParam
  /\ Commit(renderAndRunEffects(D, [ D EXCEPT !.searchParam = v ]))
  /\ lastEvent' = "search"
  /\ UNCHANGED << failedLoads, dashMounted >>
  /\ UNCHANGED notDashVars

\* The getStockData request of the call inflight[i] settles with o.
StockDataSettles(i, o) ==
  /\ inflight[i].pc = "awaitData"
  /\ Commit(renderAndRunEffects(D, afterStockData(D, i, o)))
  /\ failedLoads' = IF o.kind # "data" THEN failedLoads \cup { inflight[i].ticker }
                    ELSE failedLoads
  /\ lastEvent' = "stockData"
  /\ UNCHANGED dashMounted
  /\ UNCHANGED notDashVars

\* The getStockOpinion request of the call inflight[i] settles with o.
StockOpinionSettles(i, o) ==
  /\ inflight[i].pc = "awaitOpinion"
  /\ Commit(renderAndRunEffects(D, afterStockOpinion(D, i, o)))
  /\ failedLoads' = IF o.kind = "throws" THEN failedLoads \cup { inflight[i].ticker }
                    ELSE failedLoads
  /\ lastEvent' = "stockOpinion"
  /\ UNCHANGED dashMounted
  /\ UNCHANGED notDashVars

DashNext ==
  \/ DashMount
  \/ \E k \in DOMAIN watchlist : RowClick(k)
  \/ \E v \in SearchValues : SearchParamChanges(v)
  \/ \E i \in DOMAIN inflight : \E o \in DashDataOutcomes(inflight[i].ticker) :
       StockDataSettles(i, o)
  \/ \E i \in DOMAIN inflight : \E o \in DashOpinionOutcomes(inflight[i].data.stock) :
       StockOpinionSettles(i, o)

(* --------------------- fabricated Stock records ----------------------- *)

\* The stock record of generateMockStockData(ticker) of the mock-data
\* dashboard (lines 135-146), its two Math.random() calls made from generator
\* position pos.  (Its chart, which no record field depends on, is not
\* modelled.)
generateMockStock(ticker, pos) ==
  LET price  == QAdd(QMul(Rand(pos), Num(8000 - 50)), Num(50))
      change == QMul(price, QSub(QMul(Rand(pos + 1), Q(1, 10)), Q(1, 20)))
  IN  [ ticker        |-> ticker,
        name          |-> << Capitalized(ticker), " Inc." >>,
        price         |-> price,
        change        |-> change,
        changePercent |-> QMul(QDiv(change, QSub(price, change)), Num(100)) ]

\* Math.random() calls of generateMockStockData: two for the stock, one for
\* lastPrice, six in the history loop and ten in the prediction loop.
MockStockDataDraws == 19

MockInit ==
  /\ fabricated = << >>
  /\ mockRng \in 0..(Len(RandomCycle) - 1)

Fabricate(by, stock, draws) ==
  /\ Len(fabricated) < MaxFabricated
  /\ fabricated' = Append(fabricated, [ by |-> by, stock |-> stock ])
  /\ mockRng' = (mockRng + draws) % Len(RandomCycle)
  /\ UNCHANGED notMockVars

\* stock-flow.ts fabricates the stock of ticker t.
FabricateStockInfo(t) ==
  Fabricate("generateMockStockInfo", generateMockStockInfo(t, mockRng), MockInfoDraws)

\* The mock-data dashboard fabricates the stock of ticker t.
FabricateStockData(t) ==
  Fabricate("generateMockStockData", generateMockStock(t, mockRng), MockStockDataDraws)

\* The catch block of part_008 fabricates the stock of ticker t.
FabricateFallback(t) ==
  Fabricate("part_008", part008Fallback(t, mockRng).stock, Part008Draws)

MockNext ==
  \/ \E t \in Tickers : FabricateStockInfo(t)
  \/ \E t \in Tickers : FabricateStockData(t)
  \/ \E t \in Tickers : FabricateFallback(t)

(* ------------------ generateMockChartData on its own ------------------ *)

\* The prices the generator is called with: 0, and prices in the range of
\* generateMockStockInfo with up to three decimals.
ChartPrices == { Num(0) } \cup { Q(4000 + n, 8) : n \in 0..MaxPriceEighths }

ChartGenInit ==
  /\ chartPrice = Undef
  /\ chartPos \in 0..(Len(RandomCycle) - 1)
  /\ chartPc = "idle"
  /\ chartOut = << >>

\* generateMockChartData(price) is called and returns.
CallGenerateMockChartData(price) ==
  /\ chartPc \in { "idle", "returned" }
  /\ chartPrice' = price
  /\ chartOut' = generateMockChartData(price, chartPos)
  /\ chartPos' = (chartPos + MockChartDraws) % Len(RandomCycle)
  /\ chartPc' = "returned"
  /\ UNCHANGED notChartGenVars

ChartGenNext == \E price \in ChartPrices : CallGenerateMockChartData(price)

(* ------------------ portfolio/page.tsx, second variant ---------------- *)

\* REAL_STOCK_DATA (lib/real-stock-data), the entries the model's tickers
\* reach; a ticker without an entry maps to NoRealStock.
NoRealStock == [ known |-> FALSE, name |-> "", price |-> Undef ]

REAL_STOCK_DATA(ticker) ==
  CASE ticker = "RELIANCE" ->
         [ known |-> TRUE, name |-> "Reliance Industries Ltd.", price |-> Num(1516) ]
    [] ticker = "TCS" ->
         [ known |-> TRUE, name |-> "Tata Consultancy Services Ltd.",
           price |-> Q(336960, 100) ]
    [] ticker = "ADANIENT" ->
         [ known |-> TRUE, name |-> "Adani Enterprises Ltd.", price |-> Q(258120, 100) ]
    [] ticker = "WIPRO" ->
         [ known |-> TRUE, name |-> "Wipro Ltd.", price |-> Q(26430, 100) ]
    [] OTHER -> NoRealStock

initialHoldings ==
  << [ ticker |-> "RELIANCE", name |-> "Reliance Industries Ltd.", shares |-> Num(20),
       avgCost |-> Num(1450), currentPrice |-> REAL_STOCK_DATA("RELIANCE").price ],
     [ ticker |-> "ADANIENT", name |-> "Adani Enterprises Ltd.", shares |-> Num(15),
       avgCost |-> Num(2500), currentPrice |-> REAL_STOCK_DATA("ADANIENT").price ],
     [ ticker |-> "TCS", name |-> "Tata Consultancy Services", shares |-> Num(30),
       avgCost |-> Q(330075, 100), currentPrice |-> REAL_STOCK_DATA("TCS").price ],
     [ ticker |-> "WIPRO", name |-> "Wipro Ltd.", shares |-> Num(100),
       avgCost |-> Num(250), currentPrice |-> REAL_STOCK_DATA("WIPRO").price ] >>

\* What the user may type into the form's fields.  The shares and price
\* inputs are of type number: their value is "" or a numeral.
TickerInputs == { "", "tcs", "ZOMATO" }

SharesInputs == { "", "0", "-5", "2.5" }

PriceInputs == { "", "-1", "0", "99.5" }

\* String.prototype.toUpperCase on the model's ticker inputs.
portfolioUpper(t) == IF t = "tcs" THEN "TCS" ELSE t

\* parseFloat on the model's numerals.
parseFloat(str) ==
  CASE str = "0"    -> Num(0)
    [] str = "-5"   -> Num(0 - 5)
    [] str = "-1"   -> Num(0 - 1)
    [] str = "2.5"  -> Q(5, 2)
    [] str = "99.5" -> Q(199, 2)
    [] OTHER        -> Undef

\* a <= b and a < b on numbers; a comparison with NaN is false.
QLe(a, b) == a # Undef /\ b # Undef /\ a.n * b.d <= b.n * a.d

QLt(a, b) == a # Undef /\ b # Undef /\ a.n * b.d < b.n * a.d

\* holdings.reduce((acc, h) => acc + term(h), 0), over the terms in order.
RECURSIVE reduceSum(_, _)
reduceSum(terms, acc) ==
  IF terms = << >> THEN acc ELSE reduceSum(Tail(terms), QAdd(acc, Head(terms)))

holdingValue(h) == QMul(h.shares, h.currentPrice)

holdingCost(h) == QMul(h.shares, h.avgCost)

\* const totalValue, totalCost, totalGainLoss of the page (lines 220-222).
totalValue(hs) == reduceSum([ k \in 1..Len(hs) |-> holdingValue(hs[k]) ], Num(0))

\* The cost total summing the holdings' values instead of their costs.
totalCost_ofValues(hs) == reduceSum([ k \in 1..Len(hs) |-> holdingValue(hs[k]) ], Num(0))

totalCost(hs) == reduceSum([ k \in 1..Len(hs) |-> holdingCost(hs[k]) ], Num(0))

totalGainLoss(hs) == QSub(totalValue(hs), totalCost(hs))

\* One row of the holdings table (lines 372-376): its total value and
\* gain/loss.
rowOf(h) ==
  [ ticker     |-> h.ticker,
    totalValue |-> QMul(h.shares, h.currentPrice),
    gainLoss   |-> QSub(QMul(h.shares, h.currentPrice), QMul(h.shares, h.avgCost)) ]

\* What the page shows for a holdings list: the two cards and the rows, each
\* number with two fraction digits.
renderPortfolio(hs) ==
  [ totalValue    |-> toFixed2(totalValue(hs)),
    totalGainLoss |-> toFixed2(totalGainLoss(hs)),
    rows          |-> [ k \in 1..Len(hs) |->
                          [ ticker     |-> rowOf(hs[k]).ticker,
                            totalValue |-> toFixed2(rowOf(hs[k]).totalValue),
                            gainLoss   |-> toFixed2(rowOf(hs[k]).gainLoss) ] ] ]

\* The guard without its test of the share count.
rejects_sharesUnchecked(form) ==
  \/ form.ticker = ""
  \/ form.shares = ""
  \/ form.price = ""
  \/ QLt(parseFloat(form.price), Num(0))

\* The guard of handleAddStock (line 248).
rejects(form) ==
  \/ form.ticker = ""
  \/ form.shares = ""
  \/ form.price = ""
  \/ QLe(parseFloat(form.shares), Num(0))
  \/ QLt(parseFloat(form.price), Num(0))

\* const newHolding (lines 257-265).
newHolding(form) ==
  LET upperTicker == portfolioUpper(form.ticker)
      stockData   == REAL_STOCK_DATA(upperTicker)
  IN  [ ticker       |-> upperTicker,
        name         |-> IF stockData.known THEN stockData.name ELSE "(Custom)",
        shares       |-> parseFloat(form.shares),
        avgCost      |-> parseFloat(form.price),
        currentPrice |-> IF stockData.known THEN stockData.price
                         ELSE parseFloat(form.price) ]

PortfolioInit ==
  /\ holdings = initialHoldings
  /\ isDialogOpen = FALSE
  /\ newStock = [ ticker |-> "", shares |-> "", price |-> "" ]
  /\ toasts = ""
  /\ portfolioEvent = "mount"

\* The Add Stock button: setIsDialogOpen(true).
OpenDialog ==
  /\ portfolioEvent # "off"
  /\ isDialogOpen' = TRUE
  /\ portfolioEvent' = "dialog"
  /\ UNCHANGED << holdings, newStock, toasts >>
  /\ UNCHANGED notPortfolioVars

\* The dialog is dismissed: onOpenChange(false).
CloseDialog ==
  /\ portfolioEvent # "off"
  /\ isDialogOpen
  /\ isDialogOpen' = FALSE
  /\ portfolioEvent' = "dialog"
  /\ UNCHANGED << holdings, newStock, toasts >>
  /\ UNCHANGED notPortfolioVars

\* handleInputChange: the user edits the field id of the open dialog.
InputChange(id, value) ==
  /\ portfolioEvent # "off"
  /\ isDialogOpen
  /\ newStock' = [ newStock EXCEPT ![id] = value ]
  /\ portfolioEvent' = "input"
  /\ UNCHANGED << holdings, isDialogOpen, toasts >>
  /\ UNCHANGED notPortfolioVars

\* handleAddStock: the form of the open dialog is submitted.
SubmitAddStock ==
  /\ portfolioEvent # "off"
  /\ isDialogOpen
  /\ portfolioEvent' = "submit"
  /\ IF rejects(newStock)
     THEN /\ toasts' = "Invalid Input"
          /\ UNCHANGED << holdings, newStock, isDialogOpen >>
     ELSE /\ Len(holdings) < Len(initialHoldings) + MaxAdds
          /\ holdings' = Append(holdings, newHolding(newStock))
          /\ newStock' = [ ticker |-> "", shares |-> "", price |-> "" ]
          /\ isDialogOpen' = FALSE
          /\ toasts' = "Stock Added"
  /\ UNCHANGED notPortfolioVars

PortfolioNext ==
  \/ OpenDialog
  \/ CloseDialog
  \/ \E v \in TickerInputs : InputChange("ticker", v)
  \/ \E v \in SharesInputs : InputChange("shares", v)
  \/ \E v \in PriceInputs : InputChange("price", v)
  \/ SubmitAddStock

(* ------ page.tsx (third variant) and part_002: the Dashboard ----------- *)
\* initialWatchlist of page.tsx (third variant, lines 398-404).
initialWatchlist_third ==
  << PlaceholderStock("RELIANCE", "Reliance Industries"),
     PlaceholderStock("TCS", "Tata Consultancy"),
     PlaceholderStock("HDFCBANK", "HDFC Bank"),
     PlaceholderStock("INFY", "Infosys"),
     PlaceholderStock("ADANIENT", "Adani Enterprises") >>

\* initialWatchlist of part_002 (lines 29-35).
initialWatchlist_part002 ==
  << PlaceholderStock("RELIANCE", "Reliance Industries Ltd."),
     PlaceholderStock("ADANIENT", "Adani Enterprises Ltd."),
     PlaceholderStock("TCS", "Tata Consultancy Services"),
     PlaceholderStock("HDFCBANK", "HDFC Bank Ltd."),
     PlaceholderStock("INFY", "Infosys Ltd.") >>

initialWatchlistOf(variant) ==
  IF variant = "part_002" THEN initialWatchlist_part002 ELSE initialWatchlist_third

\* The tickers a session's records can carry.
Page3Tickers == { "RELIANCE", "TCS", "HDFCBANK", "INFY", "ADANIENT", "ZOMATO" }

\* The rows the user clicks.
ClickTickers == { "RELIANCE", "TCS" }

NoChart == [ present |-> FALSE, chartData |-> << >> ]

\* What a getStockData({ticker}) request can settle with: it throws, or
\* resolves with a stock that carries the requested ticker or another one.
Page3DataOutcomes(ticker) ==
  { [ kind |-> "throws", data |-> NoEntry ] }
  \cup
  { [ kind |-> "data",
      data |-> [ stock |-> [ ticker |-> t, name |-> << Capitalized(t), " Ltd." >>,
                             price |-> Num(100), change |-> Num(1),
                             changePercent |-> Num(1) ],
                 chartData |-> << [ date |-> "Jan", price |-> Num(100),
                                    prediction |-> Undef ] >> ] ]
      : t \in { ticker, "TCS" } }

\* What a getStockOpinion({ticker, name}) request can settle with.
Page3OpinionOutcomes(stock) ==
  { [ kind |-> "throws", opinion |-> << >> ],
    [ kind |-> "opinion", opinion |-> << "Opinion on ", stock.ticker >> ] }

\* The opinion set when getStockOpinion throws (page.tsx line 447).
failedOpinion ==
  << Disclaimer, " Failed to generate an opinion for this stock at this time." >>

\* The setWatchlist updater of page.tsx lines 433-439: no cut.
updateWatchlist_third(prev, upperTicker, stock) ==
  IF \E k \in 1..Len(prev) : prev[k].ticker = upperTicker
  THEN [ k \in 1..Len(prev) |-> IF prev[k].ticker = upperTicker THEN stock ELSE prev[k] ]
  ELSE << stock >> \o prev

\* The setWatchlist updater of part_002 lines 55-63.
updateWatchlist_part002(prev, stock) ==
  IF \E k \in 1..Len(prev) : prev[k].ticker = stock.ticker
  THEN [ k \in 1..Len(prev) |-> IF prev[k].ticker = stock.ticker THEN stock ELSE prev[k] ]
  ELSE LET newList == << stock >> \o prev
       IN  SubSeq(newList, 1, IF Len(newList) < 10 THEN Len(newList) ELSE 10)

\* A callback that returns nothing of the initial stock when its request fails.
fetchCallbackResult_dropsPlaceholder(stock, o) ==
  IF o.kind = "data" THEN o.data.stock ELSE NoStock

\* What the callback of fetchWatchlistData's map returns for an initial stock
\* whose request settled with o (lines 473-480).
fetchCallbackResult(stock, o) ==
  IF o.kind = "data" THEN o.data.stock ELSE stock

Page3Init(variants) ==
  /\ page3Variant \in variants
  /\ page3Search \in SearchValues
  /\ watchlist3 = initialWatchlistOf(page3Variant)
  /\ stockChartData3 = [ t \in Page3Tickers |-> NoChart ]
  /\ selectedStock = NoStock
  /\ isLoading3 = TRUE
  /\ opinion3 = NoOpinion
  /\ isOpinionLoading3 = FALSE
  /\ calls3 = << >>
  /\ fetchPc = "none"
  /\ fetchTasks = << >>
  /\ fetchFirst = 0
  /\ selections = << >>
  /\ page3Mounted = FALSE

SelectionInit == Page3Init({ "page_third", "part_002" })

FetchWatchlistInit == Page3Init({ "page_third" })

\* The synchronous start of handleStockSelection(ticker) (page.tsx lines
\* 418-423) or fetchStockData(ticker) (part_002 lines 47-49): the state set
\* and the getStockData request issued.
StartSelection(ticker) ==
  /\ Len(selections) < MaxSelections
  /\ isLoading3' = TRUE
  /\ IF page3Variant = "page_third"
     THEN isOpinionLoading3' = TRUE /\ opinion3' = NoOpinion
     ELSE UNCHANGED << isOpinionLoading3, opinion3 >>
  /\ selections' = Append(selections, [ ticker |-> toUpperCase(ticker),
                                        outcome |-> "pending" ])
  /\ calls3' = Append(calls3, [ ticker |-> toUpperCase(ticker), pc |-> "awaitData",
                                data |-> NoEntry, sel |-> Len(selections) + 1 ])

\* The effects of the first render: fetchWatchlistData (page.tsx lines
\* 467-485, page_third only), then the selection of the URL's ticker or of
\* RELIANCE (page.tsx lines 488-491, part_002 lines 79-82).
Page3Mount ==
  /\ ~page3Mounted
  /\ page3Mounted' = TRUE
  /\ IF page3Variant = "page_third"
     THEN /\ fetchPc' = "running"
          /\ fetchTasks' = [ i \in 1..Len(initialWatchlist_third) |->
                               [ status |-> "pending",
                                 stock |-> initialWatchlist_third[i] ] ]
     ELSE UNCHANGED << fetchPc, fetchTasks >>
  /\ StartSelection(IF page3Search # "" THEN page3Search ELSE "RELIANCE")
  /\ UNCHANGED << page3Variant, page3Search, watchlist3, stockChartData3, selectedStock,
                  fetchFirst >>
  /\ UNCHANGED notPage3Vars

\* The ticker search parameter changes: the second effect runs again.
SearchParamChanges3(v) ==
  /\ page3Mounted
  /\ v # page3Search
  /\ page3Search' = v
  /\ StartSelection(IF v # "" THEN v ELSE "RELIANCE")
  /\ UNCHANGED << page3Variant, watchlist3, stockChartData3, selectedStock, fetchPc,
                  fetchTasks, fetchFirst, page3Mounted >>
  /\ UNCHANGED notPage3Vars

\* The user clicks the k-th row of the watchlist (page.tsx line 625,
\* part_002 line 196).
RowClick3(k) ==
  /\ page3Mounted
  /\ watchlist3[k].ticker \in ClickTickers
  /\ StartSelection(watchlist3[k].ticker)
  /\ UNCHANGED << page3Variant, page3Search, watchlist3, stockChartData3, selectedStock,
                  fetchPc, fetchTasks, fetchFirst, page3Mounted >>
  /\ UNCHANGED notPage3Vars

\* How a selection's request ended, for the record of selections.
outcomeOf(ticker, o) ==
  IF o.kind # "data" THEN "failed"
  ELSE IF o.data.stock.ticker # ticker THEN "other ticker"
  ELSE "ok"

\* The getStockData request of the call calls3[i] settles with o: the rest
\* of the try block up to the next await, or the catch and finally blocks
\* (page.tsx lines 425-447 and 456-463, part_002 lines 50-76).
SelectionDataSettles(i, o) ==
  LET call == calls3[i]
  IN  /\ call.pc = "awaitData"
      /\ selections' = [ selections EXCEPT ![call.sel].outcome = outcomeOf(call.ticker, o) ]
      /\ IF page3Variant = "page_third"
         THEN IF o.kind = "data"
              THEN /\ selectedStock' = o.data.stock
                   /\ stockChartData3' =
                        [ stockChartData3 EXCEPT ![o.data.stock.ticker] =
                            [ present |-> TRUE, chartData |-> o.data.chartData ] ]
                   /\ watchlist3' = updateWatchlist_third(watchlist3, call.ticker,
                                                          o.data.stock)
                   /\ calls3' = [ calls3 EXCEPT ![i] = [ @ EXCEPT !.pc = "awaitOpinion",
                                                                  !.data = o.data ] ]
                   /\ UNCHANGED isLoading3
              ELSE /\ selectedStock' = NoStock
                   /\ isLoading3' = FALSE
                   /\ calls3' = RemoveAt(calls3, i)
                   /\ UNCHANGED << stockChartData3, watchlist3 >>
         ELSE /\ isLoading3' = FALSE
              /\ calls3' = RemoveAt(calls3, i)
              /\ IF o.kind = "data"
                 THEN /\ watchlist3' = updateWatchlist_part002(watchlist3, o.data.stock)
                      /\ stockChartData3' =
                           [ stockChartData3 EXCEPT ![o.data.stock.ticker] =
                               [ present |-> TRUE, chartData |-> o.data.chartData ] ]
                      /\ selectedStock' = o.data.stock
                 ELSE UNCHANGED << watchlist3, stockChartData3, selectedStock >>
      /\ UNCHANGED << page3Variant, page3Search, opinion3, isOpinionLoading3, fetchPc,
                      fetchTasks, fetchFirst, page3Mounted >>
      /\ UNCHANGED notPage3Vars

\* The getStockOpinion request of the call calls3[i] settles with o (page.tsx
\* lines 443-463).
SelectionOpinionSettles(i, o) ==
  /\ calls3[i].pc = "awaitOpinion"
  /\ opinion3' = [ set |-> TRUE,
                   text |-> IF o.kind = "opinion" THEN o.opinion ELSE failedOpinion ]
  /\ isOpinionLoading3' = FALSE
  /\ isLoading3' = FALSE
  /\ calls3' = RemoveAt(calls3, i)
  /\ UNCHANGED << page3Variant, page3Search, watchlist3, stockChartData3, selectedStock,
                  fetchPc, fetchTasks, fetchFirst, selections, page3Mounted >>
  /\ UNCHANGED notPage3Vars

\* The getStockData request of the i-th callback of fetchWatchlistData
\* settles with o (page.tsx lines 472-480).
FetchTaskSettles(i, o) ==
  /\ fetchPc = "running"
  /\ fetchTasks[i].status = "pending"
  /\ fetchTasks' = [ fetchTasks EXCEPT ![i] =
                       [ status |-> IF o.kind = "data" THEN "ok" ELSE "failed",
                         stock |-> fetchCallbackResult(initialWatchlist_third[i], o) ] ]
  /\ stockChartData3' =
       IF o.kind = "data"
       THEN [ stockChartData3 EXCEPT ![o.data.stock.ticker] =
                [ present |-> TRUE, chartData |-> o.data.chartData ] ]
       ELSE stockChartData3
  /\ fetchFirst' = IF fetchFirst = 0 THEN i ELSE fetchFirst
  /\ UNCHANGED << page3Variant, page3Search, watchlist3, selectedStock, isLoading3,
                  opinion3, isOpinionLoading3, calls3, fetchPc, selections,
                  page3Mounted >>
  /\ UNCHANGED notPage3Vars

\* Promise.all of fetchWatchlistData resolved: line 483.
FetchWatchlistReturns ==
  /\ fetchPc = "running"
  /\ \A i \in 1..Len(fetchTasks) : fetchTasks[i].status # "pending"
  /\ watchlist3' = [ i \in 1..Len(fetchTasks) |-> fetchTasks[i].stock ]
  /\ fetchPc' = "done"
  /\ UNCHANGED << page3Variant, page3Search, stockChartData3, selectedStock, isLoading3,
                  opinion3, isOpinionLoading3, calls3, fetchTasks, fetchFirst,
                  selections, page3Mounted >>
  /\ UNCHANGED notPage3Vars

SettleSelections ==
  \/ \E i \in 1..Len(calls3) : \E o \in Page3DataOutcomes(calls3[i].ticker) :
       SelectionDataSettles(i, o)
  \/ \E i \in 1..Len(calls3) : \E o \in Page3OpinionOutcomes(calls3[i].data.stock) :
       SelectionOpinionSettles(i, o)

\* The user's selections and the requests they issue.
SelectionNext ==
  \/ Page3Mount
  \/ \E v \in SearchValues : SearchParamChanges3(v)
  \/ \E k \in 1..Len(watchlist3) : RowClick3(k)
  \/ SettleSelections

\* The first render's fetchWatchlistData, next to the first selection.
FetchWatchlistNext ==
  \/ Page3Mount
  \/ \E i \in 1..Len(fetchTasks) :
       \E o \in Page3DataOutcomes(initialWatchlist_third[i].ticker) : FetchTaskSettles(i, o)
  \/ FetchWatchlistReturns
  \/ SettleSelections

(* ------------- the setWatchlist updaters on their own ------------------ *)
\* Tickers that are not in an initial watchlist.
NewTickers == << "ZOMATO", "PAYTM", "NYKAA", "IRCTC", "LICI", "DMART" >>

\* The stock a getStockData request returned for ticker t.
ReturnedStock(t) ==
  [ ticker |-> t, name |-> << Capitalized(t), " Ltd." >>, price |-> Num(100),
    change |-> Num(1), changePercent |-> Num(1) ]

\* The updater a variant passes to setWatchlist when the request for
\* upperTicker returned stock.
setWatchlistUpdater(variant, prev, upperTicker, stock) ==
  IF variant = "part_002" THEN updateWatchlist_part002(prev, stock)
  ELSE updateWatchlist(prev, upperTicker, stock)

\* The watchlist after the first n of NewTickers were selected in turn.
RECURSIVE WatchlistAfter(_, _)
WatchlistAfter(variant, n) ==
  IF n = 0
  THEN IF variant = "part_002" THEN initialWatchlist_part002 ELSE initialWatchlist
  ELSE setWatchlistUpdater(variant, WatchlistAfter(variant, n - 1), NewTickers[n],
                           ReturnedStock(NewTickers[n]))

\* The tickers requested, and for each the tickers its response can carry.
UpdRequested == { "RELIANCE", "INFY", "ZOMATO", "SUZLON" }

UpdReturned(ticker) == { ticker, "TCS", "SUZLON" }

UpdInit ==
  /\ updVariant \in { "page_first", "part_002" }
  /\ \E n \in 0..(IF MaxNewStocks < Len(NewTickers) THEN MaxNewStocks ELSE Len(NewTickers)) :
       updList = WatchlistAfter(updVariant, n)
  /\ updCount = 0
  /\ updLast = [ ticker |-> "", stock |-> NoStock, prev |-> << >> ]

\* A request for upperTicker returned the stock of returnedTicker:
\* setWatchlist runs its updater on it.
UpdateWatchlist(upperTicker, returnedTicker) ==
  LET stock == ReturnedStock(returnedTicker)
  IN  /\ updCount < MaxUpdates
      /\ updList' = setWatchlistUpdater(updVariant, updList, upperTicker, stock)
      /\ updCount' = updCount + 1
      /\ updLast' = [ ticker |-> upperTicker, stock |-> stock, prev |-> updList ]
      /\ UNCHANGED updVariant
      /\ UNCHANGED notUpdVars

UpdNext ==
  \E upperTicker \in UpdRequested : \E t \in UpdReturned(upperTicker) :
    UpdateWatchlist(upperTicker, t)

(* ---- page.tsx (third variant): selections after the watchlist fetch ---- *)
\* A session of the third variant in which the requests of
\* fetchWatchlistData settle one after the other, each returning the stock
\* it was issued for, before the user selects anything further.
ThirdInit == Page3Init({ "page_third" })

FetchTaskSettlesInTurn(i, o) ==
  /\ \A j \in 1..(i - 1) : fetchTasks[j].status # "pending"
  /\ o.kind = "data"
  /\ o.data.stock.ticker = initialWatchlist_third[i].ticker
  /\ FetchTaskSettles(i, o)

ThirdNext ==
  \/ Page3Mount
  \/ \E i \in 1..Len(fetchTasks) :
       \E o \in Page3DataOutcomes(initialWatchlist_third[i].ticker) :
         FetchTaskSettlesInTurn(i, o)
  \/ FetchWatchlistReturns
  \/ fetchPc = "done" /\ \E v \in SearchValues : SearchParamChanges3(v)
  \/ fetchPc = "done" /\ \E k \in 1..Len(watchlist3) : RowClick3(k)
  \/ SettleSelections

(* ------- forgot-password/page.tsx (second part): the Dashboard --------- *)
\* The tickers a session's records can carry: those of initialWatchlist and
\* one that is not in it.
MdTickers == { initialWatchlist[k].ticker : k \in 1..Len(initialWatchlist) } \cup { "ZOMATO" }

\* An entry of stockDetails (chartData, which no handler reads, is left
\* out); MdAbsent stands for a key the record does not have.
MdAbsent == [ present |-> FALSE, stock |-> NoStock, opinion |-> NoOpinion,
              opinionLoading |-> "undefined" ]

\* getStockData(tickers) of lines 174-177: after the delay, the fabricated
\* stock of each ticker, the generator starting at position pos.
mockGetStockData(tickerSeq, pos) ==
  [ k \in 1..Len(tickerSeq) |->
      generateMockStock(tickerSeq[k], pos + MockStockDataDraws * (k - 1)) ]

\* getStockOpinion(ticker, name) of lines 180-185.
mockGetStockOpinion(ticker, name) ==
  << Disclaimer, " Always conduct your own research. " >> \o name
    \o << " (", ticker, ") shows potential" >>

\* The component's state and pending calls as one record.
Md ==
  [ search |-> mdSearch, watchlist |-> mdWatchlist, details |-> mdDetails,
    selected |-> mdSelected, graphLoading |-> mdGraphLoading,
    loadComplete |-> mdLoadComplete, dataCalls |-> mdDataCalls,
    opinionCalls |-> mdOpinionCalls ]

\* fetchOpinionForStock(ticker, name) up to its await (lines 249-256).
fetchOpinionForStock(m, ticker, name) ==
  [ m EXCEPT
      !.details[ticker] = [ @ EXCEPT !.present = TRUE, !.opinionLoading = "true" ],
      !.opinionCalls = Append(@, [ ticker |-> ticker, name |-> name ]) ]

\* handleStockSelection(ticker) up to its await (lines 270-288).
mdHandleStockSelection(m, ticker) ==
  LET upperTicker == toUpperCase(ticker)
      sel == [ m EXCEPT !.selected = upperTicker ]
      entry == m.details[upperTicker]
  IN  IF entry.present
      THEN IF ~(entry.opinion.set /\ entry.opinion.text # << >>)
              /\ entry.opinionLoading # "true"
           THEN fetchOpinionForStock(sel, upperTicker, entry.stock.name)
           ELSE sel
      ELSE [ sel EXCEPT !.graphLoading = TRUE,
                        !.dataCalls = Append(@, upperTicker) ]

\* The body of the second effect (lines 368-373).
mdUseEffect(m) ==
  LET searchTicker == toUpperCase(m.search)
  IN  IF searchTicker # "" /\ m.loadComplete /\ searchTicker # m.selected
      THEN mdHandleStockSelection(m, searchTicker)
      ELSE m

\* Whether a dependency of the second effect differs between two renders:
\* searchParams, initialLoadComplete, selectedTicker and handleStockSelection,
\* which useCallback renews when stockDetails is set.
mdDepsChanged(before, after) ==
  \/ before.search # after.search
  \/ before.loadComplete # after.loadComplete
  \/ before.selected # after.selected
  \/ before.details # after.details

\* The render that follows a handler's state updates, and the runs of the
\* second effect it leads to, until a render changes no dependency.  (The
\* first effect, run again when initialLoadComplete changes, returns at its
\* first line.)
RECURSIVE mdRenderAndRunEffects(_, _)
mdRenderAndRunEffects(before, after) ==
  IF mdDepsChanged(before, after)
  THEN mdRenderAndRunEffects(after, mdUseEffect(after))
  ELSE after

\* The setWatchlist updater of lines 302-305.
mdUpdateWatchlist(prev, upperTicker, stock) ==
  IF ~(\E k \in 1..Len(prev) : prev[k].ticker = upperTicker)
  THEN << stock >> \o prev
  ELSE [ k \in 1..Len(prev) |-> IF prev[k].ticker = upperTicker THEN stock ELSE prev[k] ]

\* Lines 289-317: getStockData of the call dataCalls[i] resolved.
mdAfterStockData(m, i) ==
  LET upperTicker == m.dataCalls[i]
      data == mockGetStockData(<< upperTicker >>, 0)[1]
      loaded == [ m EXCEPT
                    !.details[upperTicker] =
                       [ present |-> TRUE, stock |-> data, opinion |-> NoOpinion,
                         opinionLoading |-> "true" ],
                    !.watchlist = mdUpdateWatchlist(@, upperTicker, data),
                    !.dataCalls = RemoveAt(@, i) ]
  IN  [ fetchOpinionForStock(loaded, upperTicker, data.name) EXCEPT
          !.graphLoading = FALSE ]

\* Lines 256-260: getStockOpinion of the call opinionCalls[i] resolved.
mdAfterStockOpinion(m, i) ==
  LET call == m.opinionCalls[i]
  IN  [ m EXCEPT
          !.details[call.ticker] =
             [ @ EXCEPT !.present = TRUE,
                        !.opinion = [ set |-> TRUE,
                                      text |-> mockGetStockOpinion(call.ticker, call.name) ],
                        !.opinionLoading = "false" ],
          !.opinionCalls = RemoveAt(@, i) ]

\* Lines 328-361 of loadInitialData: its getStockData resolved.
mdAfterInitialData(m) ==
  LET dataArray == mockGetStockData([ k \in 1..Len(initialWatchlist) |->
                                        initialWatchlist[k].ticker ], 0)
      newDetails == [ t \in MdTickers |->
                        IF \E k \in 1..Len(dataArray) : dataArray[k].ticker = t
                        THEN [ present |-> TRUE,
                               stock |-> dataArray[CHOOSE k \in 1..Len(dataArray) :
                                                     dataArray[k].ticker = t],
                               opinion |-> NoOpinion, opinionLoading |-> "false" ]
                        ELSE MdAbsent ]
      set == [ m EXCEPT !.details = newDetails,
                        !.watchlist = dataArray,
                        !.selected = dataArray[1].ticker ]
  IN  [ fetchOpinionForStock(set, dataArray[1].ticker, dataArray[1].name) EXCEPT
          !.graphLoading = FALSE,
          !.loadComplete = TRUE ]

\* The state m becomes the component's state.
MdCommit(m) ==
  /\ mdSearch' = m.search
  /\ mdWatchlist' = m.watchlist
  /\ mdDetails' = m.details
  /\ mdSelected' = m.selected
  /\ mdGraphLoading' = m.graphLoading
  /\ mdLoadComplete' = m.loadComplete
  /\ mdDataCalls' = m.dataCalls
  /\ mdOpinionCalls' = m.opinionCalls

NoClick == [ ticker |-> NullTicker, loaded |-> FALSE ]

MdInit ==
  /\ mdSearch \in SearchValues
  /\ mdWatchlist = initialWatchlist
  /\ mdDetails = [ t \in MdTickers |-> MdAbsent ]
  /\ mdSelected = NullTicker
  /\ mdGraphLoading = TRUE
  /\ mdLoadComplete = FALSE
  /\ mdInitialLoad = "none"
  /\ mdDataCalls = << >>
  /\ mdOpinionCalls = << >>
  /\ mdClicked = NoClick
  /\ mdEvents = 0
  /\ mdMounted = FALSE

\* The first render's effects: loadInitialData runs to its await (lines
\* 322-329); the second effect finds initialLoadComplete false.
MdMount ==
  /\ ~mdMounted
  /\ mdMounted' = TRUE
  /\ mdInitialLoad' = "pending"
  /\ MdCommit([ Md EXCEPT !.graphLoading = TRUE ])
  /\ UNCHANGED << mdClicked, mdEvents >>
  /\ UNCHANGED notMdVars

\* The getStockData request of loadInitialData resolves.
MdInitialDataSettles ==
  /\ mdInitialLoad = "pending"
  /\ mdInitialLoad' = "done"
  /\ MdCommit(mdRenderAndRunEffects(Md, mdAfterInitialData(Md)))
  /\ UNCHANGED << mdClicked, mdEvents, mdMounted >>
  /\ UNCHANGED notMdVars

\* The user clicks the k-th row of the watchlist (line 505).
MdRowClick(k) ==
  /\ mdMounted
  /\ mdEvents < MaxEvents
  /\ mdWatchlist[k].ticker \in ClickTickers
  /\ MdCommit(mdRenderAndRunEffects(Md, mdHandleStockSelection(Md, mdWatchlist[k].ticker)))
  /\ mdClicked' = [ ticker |-> mdWatchlist[k].ticker,
                    loaded |-> mdDetails[mdWatchlist[k].ticker].present ]
  /\ mdEvents' = mdEvents + 1
  /\ UNCHANGED << mdInitialLoad, mdMounted >>
  /\ UNCHANGED notMdVars

\* The ticker search parameter changes (a search in the layout's form).
MdSearchParamChanges(v) ==
  /\ mdMounted
  /\ mdEvents < MaxEvents
  /\ v # mdSearch
  /\ MdCommit(mdRenderAndRunEffects(Md, [ Md EXCEPT !.search = v ]))
  /\ mdClicked' = NoClick
  /\ mdEvents' = mdEvents + 1
  /\ UNCHANGED << mdInitialLoad, mdMounted >>
  /\ UNCHANGED notMdVars

\* The getStockData request of the call mdDataCalls[i] resolves.  The
\* requests are timers of one delay (line 176), which fire in the order they
\* were started: loadInitialData's first, then the handler's in turn.
MdStockDataSettles(i) ==
  /\ i = 1
  /\ mdInitialLoad # "pending"
  /\ MdCommit(mdRenderAndRunEffects(Md, mdAfterStockData(Md, i)))
  /\ UNCHANGED << mdInitialLoad, mdClicked, mdEvents, mdMounted >>
  /\ UNCHANGED notMdVars

\* The getStockOpinion request of the call mdOpinionCalls[i] resolves: timers
\* of one delay (line 181), in the order they were started.
MdStockOpinionSettles(i) ==
  /\ i = 1
  /\ MdCommit(mdRenderAndRunEffects(Md, mdAfterStockOpinion(Md, i)))
  /\ UNCHANGED << mdInitialLoad, mdClicked, mdEvents, mdMounted >>
  /\ UNCHANGED notMdVars

MdNext ==
  \/ MdMount
  \/ MdInitialDataSettles
  \/ \E k \in 1..Len(mdWatchlist) : MdRowClick(k)
  \/ \E v \in SearchValues : MdSearchParamChanges(v)
  \/ \E i \in 1..Len(mdDataCalls) : MdStockDataSettles(i)
  \/ \E i \in 1..Len(mdOpinionCalls) : MdStockOpinionSettles(i)

(* ------------------- a part of the program not running ---------------- *)

FlowOff ==
  /\ flowVariant = "off"
  /\ tickers = << >>
  /\ flowPc = "off"
  /\ taskPc = << >>
  /\ stockInfo = << >>
  /\ chartDataObj = << >>
  /\ taskResult = << >>
  /\ settleOrder = << >>
  /\ promptCalls = << >>
  /\ failed = {}
  /\ flowReturn = Pending
  /\ rngPos = 0

RepairOff ==
  /\ repairVariant = "off"
  /\ repairInput = << >>
  /\ repairPc = "off"
  /\ promptOutput = NoPromptOutput
  /\ repairReturn = Pending

OpinionOff ==
  /\ opinionVariant = "off"
  /\ opinionInput = [ ticker |-> "", name |-> << >> ]
  /\ opinionPc = "off"
  /\ opinionOutcome = [ kind |-> "unset", opinion |-> << >> ]
  /\ opinionReturn = Pending

AuthOff ==
  /\ authToken = NoToken
  /\ mounted = FALSE
  /\ isAuthenticated = FALSE
  /\ isLoading = TRUE
  /\ effectPending = FALSE
  /\ tokenAtCheck = Unchecked
  /\ replaceCalls = << >>
  /\ rendered = << >>

DashOff ==
  /\ searchParam = ""
  /\ watchlist = << >>
  /\ stockDetails = << >>
  /\ selectedTicker = NullTicker
  /\ isGraphLoading = FALSE
  /\ initialLoadComplete = FALSE
  /\ inflight = << >>
  /\ issued = << >>
  /\ failedLoads = {}
  /\ lastEvent = "off"
  /\ dashMounted = FALSE

MockOff ==
  /\ fabricated = << >>
  /\ mockRng = 0

(* ------------------------ stockDataFlow: claims ----------------------- *)

\* C2: in the repairing stockDataFlow (stock-opinion-flow.ts and part_006),
\* for every model output in which a chart point has a price, the returned
\* record's stock.price is the price of the last chart point that has one.
C2_PriceIsLastChartPrice ==
  (repairPc = "returned" /\ promptOutput.kind = "output") =>
    /\ repairReturn.status = "resolved"
    /\ Len(repairReturn.value) = Len(promptOutput.output)
    /\ \A k \in 1..Len(promptOutput.output) :
         LET chart == promptOutput.output[k].chartData
             j     == lastPricedIndex(chart)
         IN  j > 0 => repairReturn.value[k].stock.price = chart[j].price

\* C3: in the stockDataFlow of stock-opinion-flow.ts, for every model output
\* in which a chart point has a non-zero price, on return the last chart
\* point that has a price has that price as its prediction.
C3_PredictionStartsAtLastPrice ==
  ( /\ repairVariant = "stock_opinion_flow"
    /\ repairPc = "returned"
    /\ promptOutput.kind = "output"
    /\ \E j \in DOMAIN promptOutput.output[1].chartData :
         Truthy(promptOutput.output[1].chartData[j].price) ) =>
    /\ repairReturn.status = "resolved"
    /\ LET chart == repairReturn.value[1].chartData
           j     == lastPricedIndex(chart)
       IN  j > 0 /\ chart[j].prediction = chart[j].price

(* ----------------------- getStockOpinion: claims ---------------------- *)

\* C7: in every variant of the opinion flow getStockOpinion resolves, and when
\* the model call throws or yields no output the opinion it returns begins
\* with the disclaimer.
C7_FallbackBeginsWithDisclaimer ==
  opinionPc = "returned" =>
    /\ opinionReturn.status = "resolved"
    /\ opinionOutcome.kind \in { "throws", "none" } =>
         startsWith(opinionReturn.value, Disclaimer)

(* --------------------------- withAuth: claims ------------------------- *)

\* C8: the wrapped component is rendered only if localStorage held an
\* authToken when the mount-time check ran; before the check only the spinner
\* is rendered; when the check finds no token router.replace('/login') is
\* called and the wrapped component is never rendered.
C8_RenderedOnlyWithToken ==
  /\ (\E k \in DOMAIN rendered : rendered[k] = "WrappedComponent") =>
       (tokenAtCheck # Unchecked /\ TokenTruthy(tokenAtCheck))
  /\ tokenAtCheck = Unchecked => \A k \in DOMAIN rendered : rendered[k] = "spinner"
  /\ (tokenAtCheck # Unchecked /\ ~TokenTruthy(tokenAtCheck)) =>
       /\ replaceCalls = << "/login" >>
       /\ \A k \in DOMAIN rendered : rendered[k] # "WrappedComponent"

\* The check found no token, a token was stored afterwards, and the component
\* rendered again.
C8_Witness ==
  /\ tokenAtCheck = NoToken
  /\ authToken = "token-1"
  /\ mounted
  /\ Len(rendered) >= 3
  /\ rendered[Len(rendered)] = "null"

(* -------------------------- dashboard: claims ------------------------- *)

\* C6: after a load of ticker T has failed, a request for T is issued only by
\* a click on a watchlist row or a change of the ticker search parameter.
C6_NoRequestAfterFailure ==
  [][ \A T \in DashTickers :
        (dashMounted /\ T \in failedLoads' /\ issued'[T] > issued[T]) =>
          lastEvent' \in { "click", "search" } ]_vars

(* --------------------- fabricated records: claims --------------------- *)

ChangeOverPrice(stock) == QMul(QDiv(stock.change, stock.price), Num(100))

ChangeOverPrevious(stock) ==
  QMul(QDiv(stock.change, QSub(stock.price, stock.change)), Num(100))

\* C9, as claimed: every fabricated Stock record has
\* changePercent = (change / price) * 100.
C9_ChangePercentOverPrice ==
  \A k \in DOMAIN fabricated :
    fabricated[k].stock.changePercent = ChangeOverPrice(fabricated[k].stock)

\* C9, amended: a record of generateMockStockInfo (stock-flow.ts) has
\* changePercent = (change / price) * 100; a record of generateMockStockData
\* (mock dashboard) or of the fallback of part_008 has
\* changePercent = (change / (price - change)) * 100, the change relative to
\* the previous price.
C9_ChangePercentPerGenerator ==
  \A k \in DOMAIN fabricated :
    LET stock == fabricated[k].stock
    IN  IF fabricated[k].by = "generateMockStockInfo"
        THEN stock.changePercent = ChangeOverPrice(stock)
        ELSE stock.changePercent = ChangeOverPrevious(stock)

\* One record of stock-flow.ts and one of the mock dashboard, the latter with
\* a change other than zero.
C9_Witness ==
  /\ Len(fabricated) = 2
  /\ fabricated[1].by = "generateMockStockInfo"
  /\ fabricated[2].by = "generateMockStockData"
  /\ fabricated[2].stock.change # Num(0)

ChartGenOff ==
  /\ chartPrice = Undef
  /\ chartPos = 0
  /\ chartPc = "off"
  /\ chartOut = << >>

(* ------------------- generateMockChartData: claims -------------------- *)

PortfolioOff ==
  /\ holdings = << >>
  /\ isDialogOpen = FALSE
  /\ newStock = [ ticker |-> "", shares |-> "", price |-> "" ]
  /\ toasts = ""
  /\ portfolioEvent = "off"

(* ----------------------- portfolio page: claims ----------------------- *)

\* The sum over the holdings hs of the per-row quantity named field.
RECURSIVE RowSum(_, _)
RowSum(hs, field) ==
  IF hs = << >> THEN Num(0)
  ELSE QAdd(rowOf(Head(hs))[field], RowSum(Tail(hs), field))

\* C12: on the portfolio page, for every holdings list reached by adding
\* stocks, the total gain/loss shown is the sum over the holdings of
\* shares * currentPrice - shares * avgCost, and the portfolio value shown is
\* the sum of the rows' total values.
C12_TotalsAreRowSums ==
  portfolioEvent # "off" =>
    /\ totalGainLoss(holdings) = RowSum(holdings, "gainLoss")
    /\ totalValue(holdings) = RowSum(holdings, "totalValue")
    /\ renderPortfolio(holdings).totalGainLoss = toFixed2(RowSum(holdings, "gainLoss"))
    /\ renderPortfolio(holdings).totalValue = toFixed2(RowSum(holdings, "totalValue"))

\* Two stocks added, one of them unknown to REAL_STOCK_DATA with a fractional
\* share count and a gain/loss of zero, one known with a loss or gain.
C12_Witness ==
  /\ Len(holdings) = Len(initialHoldings) + 2
  /\ holdings[5].ticker = "ZOMATO"
  /\ holdings[5].shares = Q(5, 2)
  /\ holdings[6].ticker = "TCS"
  /\ rowOf(holdings[6]).gainLoss # Num(0)

\* The submissions the claim names: an empty field, shares <= 0, price < 0.
InvalidSubmission(form) ==
  \/ form.ticker = "" \/ form.shares = "" \/ form.price = ""
  \/ form.shares \in { "0", "-5" }
  \/ form.price = "-1"

\* C19: a submission of the add-stock form with an empty ticker, shares or
\* price, with shares <= 0 or with price < 0 shows the "Invalid Input" notice
\* and leaves the holdings, the form fields and the dialog's open state
\* unchanged; the holdings change only by an accepted submission, which
\* appends exactly one holding at the end.
C19_RejectedSubmissionChangesNothing ==
  [][ /\ (portfolioEvent' = "submit" /\ InvalidSubmission(newStock)) =>
           /\ toasts' = "Invalid Input"
           /\ holdings' = holdings
           /\ newStock' = newStock
           /\ isDialogOpen' = isDialogOpen
      /\ (portfolioEvent # "off" /\ holdings' # holdings) =>
           /\ portfolioEvent' = "submit"
           /\ ~InvalidSubmission(newStock)
           /\ toasts' = "Stock Added"
           /\ Len(holdings') = Len(holdings) + 1
           /\ SubSeq(holdings', 1, Len(holdings)) = holdings ]_vars

\* A submission with zero shares was rejected after an earlier one was
\* accepted.
C19_Witness ==
  /\ portfolioEvent = "submit"
  /\ toasts = "Invalid Input"
  /\ newStock = [ ticker |-> "tcs", shares |-> "0", price |-> "99.5" ]
  /\ isDialogOpen
  /\ Len(holdings) = Len(initialHoldings) + 1

Page3Off ==
  /\ page3Variant = "off"
  /\ page3Search = ""
  /\ watchlist3 = << >>
  /\ stockChartData3 = << >>
  /\ selectedStock = NoStock
  /\ isLoading3 = FALSE
  /\ opinion3 = NoOpinion
  /\ isOpinionLoading3 = FALSE
  /\ calls3 = << >>
  /\ fetchPc = "none"
  /\ fetchTasks = << >>
  /\ fetchFirst = 0
  /\ selections = << >>
  /\ page3Mounted = FALSE

C20_LastSelectionWins ==
  ( /\ page3Mounted
    /\ Len(selections) >= 2
    /\ calls3 = << >>
    /\ \A s \in 1..Len(selections) : selections[s].outcome = "ok" ) =>
      selectedStock.ticker = selections[Len(selections)].ticker

\* C14: the watchlist of the dashboard (page.tsx, first variant) never holds
\* two entries with the same ticker, also when the stock a request returned
\* carries another ticker than the one requested.
C14_WatchlistTickersDistinct ==
  \A i, j \in 1..Len(watchlist) :
    i # j => watchlist[i].ticker # watchlist[j].ticker

UpdOff ==
  /\ updVariant = "off"
  /\ updList = << >>
  /\ updCount = 0
  /\ updLast = [ ticker |-> "", stock |-> NoStock, prev |-> << >> ]

\* C15: the dashboard watchlist never holds more than 10 entries: an update
\* for a stock that is not in the list puts it at the front and cuts the list
\* to its first 10 entries, and an update for a stock that is in the list
\* replaces it in place, without changing the list's length or order.  (The
\* stock is looked up by the requested ticker in page.tsx and by the returned
\* stock's ticker in part_002.)
C15_AtMostTenEntries ==
  [][ LET prev == updLast'.prev
          stock == updLast'.stock
          key == IF updVariant = "part_002" THEN stock.ticker ELSE updLast'.ticker
          inList == \E k \in 1..Len(prev) : prev[k].ticker = key
      IN  /\ Len(updList) <= 10
          /\ Len(updList') <= 10
          /\ prev = updList
          /\ ~inList =>
               /\ Len(updList') = IF Len(prev) < 10 THEN Len(prev) + 1 ELSE 10
               /\ updList'[1] = stock
               /\ \A k \in 2..Len(updList') : updList'[k] = prev[k - 1]
          /\ inList =>
               /\ Len(updList') = Len(prev)
               /\ \A k \in 1..Len(prev) :
                    updList'[k] = IF prev[k].ticker = key THEN stock ELSE prev[k] ]_vars

\* An update put a new stock at the front of a list of 10 entries and cut
\* the list's last entry.
C15_Witness ==
  /\ updCount > 0
  /\ Len(updLast.prev) = 10
  /\ \A k \in 1..10 : updLast.prev[k].ticker # updLast.stock.ticker
  /\ updLast.stock.ticker = updLast.ticker
  /\ Len(updList) = 10
  /\ updList[1] = updLast.stock
  /\ updList[10] = updLast.prev[9]

\* What reverting only T makes of the state d.
C16_CatchBlockReverts(d, T, d2) ==
  /\ d2.selectedTicker = IF d.selectedTicker = T THEN NullTicker ELSE d.selectedTicker
  /\ d2.stockDetails[T] = Absent
  /\ \A U \in DashTickers \ { T } : d2.stockDetails[U] = d.stockDetails[U]
  /\ d2.watchlist = d.watchlist

\* C16: when the load of a ticker T fails, the error handler reverts only T:
\* the selection is cleared only if the selected ticker is still T, exactly
\* the stockDetails entry of T is removed, and the entries of all other
\* tickers are unchanged.  Stated of the catch block for every pending call
\* of every reachable state, and of the whole step when no ticker parameter
\* makes the effect select again.
C16_ErrorHandlerRevertsOnlyItsTicker ==
  /\ [](\A i \in 1..Len(inflight) :
          C16_CatchBlockReverts(D, inflight[i].ticker, catchBlock(D, i)))
  /\ [][ \A T \in DashTickers :
           ( /\ lastEvent' \in { "stockData", "stockOpinion" }
             /\ searchParam = ""
             /\ stockDetails[T].present
             /\ ~stockDetails'[T].present ) =>
               /\ selectedTicker' = IF selectedTicker = T THEN NullTicker
                                    ELSE selectedTicker
               /\ stockDetails'[T] = Absent
               /\ \A U \in DashTickers \ { T } : stockDetails'[U] = stockDetails[U]
               /\ watchlist' = watchlist ]_vars

\* The load of ZOMATO failed after the user had selected RELIANCE, whose
\* details are loaded: RELIANCE is still selected and its entry is kept.
C16_Witness ==
  /\ lastEvent \in { "stockData", "stockOpinion" }
  /\ "ZOMATO" \in failedLoads
  /\ stockDetails["ZOMATO"] = Absent
  /\ selectedTicker = "RELIANCE"
  /\ stockDetails["RELIANCE"].present
  /\ inflight = << >>

\* C18: selecting a ticker whose stockDetails entry already has an opinion
\* issues no stock-data and no opinion request: it only sets selectedTicker
\* to that ticker and leaves stockDetails, the watchlist and isGraphLoading
\* unchanged.  Stated of handleStockSelection for every reachable state, and
\* of the whole click when no ticker parameter makes the effect select again.
C18_LoadedTickerSelectedWithoutRequest ==
  /\ [](\A ticker \in DashTickers \cup (SearchValues \ { "" }) :
          OpinionTruthy(stockDetails[toUpperCase(ticker)]) =>
            handleStockSelection(D, ticker)
              = [ D EXCEPT !.selectedTicker = toUpperCase(ticker) ])
  /\ [][ ( /\ lastEvent' = "click"
           /\ searchParam = ""
           /\ selectedTicker' \in DashTickers
           /\ OpinionTruthy(stockDetails[selectedTicker']) ) =>
             UNCHANGED << stockDetails, watchlist, isGraphLoading, inflight, issued >> ]_vars

\* The user clicked the row of TCS, whose opinion was loaded, while another
\* ticker was selected: TCS is selected and no request is pending.
C18_Witness ==
  /\ lastEvent = "click"
  /\ selectedTicker = "TCS"
  /\ OpinionTruthy(stockDetails["TCS"])
  /\ OpinionTruthy(stockDetails["RELIANCE"])
  /\ inflight = << >>
  /\ TotalIssued(D) = 2

\* C17: the single-prompt stockDataFlow (part_005, part_006, part_007) never
\* throws: when the model yields no output or the model call throws it
\* returns an empty array, and otherwise it returns one entry per entry of
\* the model's output (in the output's order), even when that is fewer than
\* the tickers requested.
C17_ArrayFlowNeverThrows ==
  repairPc = "returned" =>
    /\ repairReturn.status = "resolved"
    /\ promptOutput.kind \in { "throws", "none" } => repairReturn.value = << >>
    /\ promptOutput.kind = "output" =>
         /\ Len(repairReturn.value) = Len(promptOutput.output)
         /\ \A k \in 1..Len(promptOutput.output) :
              /\ repairReturn.value[k].stock.ticker = promptOutput.output[k].stock.ticker
              /\ Len(repairReturn.value[k].chartData)
                   = Len(promptOutput.output[k].chartData)
         /\ repairVariant \in { "part_005", "part_007" } =>
              repairReturn.value = promptOutput.output

\* The flow of part_006 returned the one entry of the model's output when
\* two tickers were requested.
C17_Witness ==
  /\ repairVariant = "part_006"
  /\ repairPc = "returned"
  /\ Len(repairInput) = 2
  /\ promptOutput.kind = "output"
  /\ Len(promptOutput.output) = 1
  /\ repairReturn.status = "resolved"
  /\ Len(repairReturn.value) = 1

\* C21: in the dashboard of page.tsx (third variant), whenever no request is
\* in flight and an opinion is displayed (every request having returned the
\* stock it was issued for), that opinion was generated for the currently
\* selected stock, for every interleaving of overlapping selections.
C21_OpinionIsOfSelectedStock ==
  ( /\ page3Variant = "page_third"
    /\ page3Mounted
    /\ fetchPc = "done"
    /\ calls3 = << >>
    /\ \A s \in 1..Len(selections) : selections[s].outcome = "ok"
    /\ ~isOpinionLoading3
    /\ opinion3.set
    /\ opinion3.text # failedOpinion ) =>
      opinion3.text = << "Opinion on ", selectedStock.ticker >>

\* C22: in the dashboard of page.tsx (first variant), isGraphLoading is true
\* whenever the stock-data request of the currently selected ticker is still
\* in flight, also when an earlier request for another ticker completes in
\* the meantime; and isGraphLoading is false whenever no stock-data request
\* is in flight.
C22_GraphLoadingFollowsSelectedRequest ==
  dashMounted =>
    /\ ( \E i \in 1..Len(inflight) :
           inflight[i].pc = "awaitData" /\ inflight[i].ticker = selectedTicker )
         => isGraphLoading
    /\ ( \A i \in 1..Len(inflight) : inflight[i].pc # "awaitData" )
         => ~isGraphLoading

MdOff ==
  /\ mdSearch = ""
  /\ mdWatchlist = << >>
  /\ mdDetails = << >>
  /\ mdSelected = NullTicker
  /\ mdGraphLoading = FALSE
  /\ mdLoadComplete = FALSE
  /\ mdInitialLoad = "none"
  /\ mdDataCalls = << >>
  /\ mdOpinionCalls = << >>
  /\ mdClicked = [ ticker |-> NullTicker, loaded |-> FALSE ]
  /\ mdEvents = 0
  /\ mdMounted = FALSE

\* C23: in the mock-data dashboard, after the user clicks the watchlist row
\* of a loaded ticker T, selectedTicker equals T and stays T until the next
\* row click or a change of the ticker search parameter, also when the URL
\* carries a ticker search parameter different from T.
C23_ClickedTickerStaysSelected ==
  mdClicked.loaded => mdSelected = mdClicked.ticker

(* --------------------------- specifications --------------------------- *)

InitFlow ==
  FlowInit("stock_flow") /\ RepairOff /\ OpinionOff /\ AuthOff /\ DashOff /\ MockOff
  /\ ChartGenOff /\ PortfolioOff /\ Page3Off /\ UpdOff /\ MdOff

InitFlow008 ==
  FlowInit("part_008") /\ RepairOff /\ OpinionOff /\ AuthOff /\ DashOff /\ MockOff
  /\ ChartGenOff /\ PortfolioOff /\ Page3Off /\ UpdOff /\ MdOff

InitRepair == FlowOff /\ RepairInit /\ OpinionOff /\ AuthOff /\ DashOff /\ MockOff
  /\ ChartGenOff /\ PortfolioOff /\ Page3Off /\ UpdOff /\ MdOff

InitArrayFlow == FlowOff /\ ArrayFlowInit /\ OpinionOff /\ AuthOff /\ DashOff /\ MockOff
  /\ ChartGenOff /\ PortfolioOff /\ Page3Off /\ UpdOff /\ MdOff

InitOpinion == FlowOff /\ RepairOff /\ OpinionInit /\ AuthOff /\ DashOff /\ MockOff
  /\ ChartGenOff /\ PortfolioOff /\ Page3Off /\ UpdOff /\ MdOff

InitAuth == FlowOff /\ RepairOff /\ OpinionOff /\ AuthInit /\ DashOff /\ MockOff
  /\ ChartGenOff /\ PortfolioOff /\ Page3Off /\ UpdOff /\ MdOff

InitDash == FlowOff /\ RepairOff /\ OpinionOff /\ AuthOff /\ DashInit /\ MockOff
  /\ ChartGenOff /\ PortfolioOff /\ Page3Off /\ UpdOff /\ MdOff

InitMock == FlowOff /\ RepairOff /\ OpinionOff /\ AuthOff /\ DashOff /\ MockInit
  /\ ChartGenOff /\ PortfolioOff /\ Page3Off /\ UpdOff /\ MdOff

InitChartGen ==
  FlowOff /\ RepairOff /\ OpinionOff /\ AuthOff /\ DashOff /\ MockOff
  /\ ChartGenInit /\ PortfolioOff /\ Page3Off /\ UpdOff /\ MdOff

InitPortfolio ==
  FlowOff /\ RepairOff /\ OpinionOff /\ AuthOff /\ DashOff
  /\ MockOff /\ ChartGenOff
  /\ PortfolioInit /\ Page3Off /\ UpdOff /\ MdOff

InitSelection ==
  FlowOff /\ RepairOff /\ OpinionOff /\ AuthOff /\ DashOff
  /\ MockOff /\ ChartGenOff /\ PortfolioOff
  /\ SelectionInit /\ UpdOff /\ MdOff

InitFetchWatchlist ==
  FlowOff /\ RepairOff /\ OpinionOff /\ AuthOff /\ DashOff
  /\ MockOff /\ ChartGenOff /\ PortfolioOff
  /\ FetchWatchlistInit /\ UpdOff /\ MdOff

InitThird ==
  FlowOff /\ RepairOff /\ OpinionOff /\ AuthOff /\ DashOff
  /\ MockOff /\ ChartGenOff /\ PortfolioOff
  /\ ThirdInit /\ UpdOff /\ MdOff

InitUpd ==
  FlowOff /\ RepairOff /\ OpinionOff /\ AuthOff /\ DashOff
  /\ MockOff /\ ChartGenOff /\ PortfolioOff /\ Page3Off
  /\ UpdInit /\ MdOff

InitMd ==
  FlowOff /\ RepairOff /\ OpinionOff /\ AuthOff /\ DashOff
  /\ MockOff /\ ChartGenOff /\ PortfolioOff /\ Page3Off /\ UpdOff
  /\ MdInit

\* One getStockData call of stock-flow.ts.
SpecFlow == InitFlow /\ [][FlowNext]_vars

\* One getStockData call of part_008.
SpecFlow008 == InitFlow008 /\ [][FlowNext]_vars

\* One call of a stockDataFlow that repairs its prompt's output.
SpecRepair == InitRepair /\ [][RepairNext]_vars

\* One call of getStockOpinion.
SpecOpinion == InitOpinion /\ [][OpinionNext]_vars

\* A component wrapped by withAuth.
SpecAuth == InitAuth /\ [][AuthNext]_vars

\* A session of the dashboard of src/app/page.tsx.
SpecDash == InitDash /\ [][DashNext]_vars

\* A run of the generators of fabricated Stock records.
SpecMock == InitMock /\ [][MockNext]_vars

\* Calls of generateMockChartData of stock-flow.ts.
SpecChartGen == InitChartGen /\ [][ChartGenNext]_vars

\* A session of the portfolio page (second variant of portfolio/page.tsx).
SpecPortfolio == InitPortfolio /\ [][PortfolioNext]_vars

\* The Dashboard of page.tsx (third variant) and of part_002: selections.
SpecSelection == InitSelection /\ [][SelectionNext]_vars

\* The Dashboard of page.tsx (third variant): fetchWatchlistData.
SpecFetchWatchlist == InitFetchWatchlist /\ [][FetchWatchlistNext]_vars

\* The setWatchlist updaters of page.tsx (first variant) and of part_002.
SpecUpd == InitUpd /\ [][UpdNext]_vars

\* One call of a stockDataFlow whose prompt returns an array.
SpecArrayFlow == InitArrayFlow /\ [][RepairNext]_vars

\* The Dashboard of page.tsx (third variant): selections after the watchlist fetch.
SpecThird == InitThird /\ [][ThirdNext]_vars

\* A session of the mock-data dashboard (forgot-password/page.tsx, second part).
SpecMd == InitMd /\ [][MdNext]_vars

====
